---------------------------- MODULE Spec2Model ----------------------------
(***************************************************************************)
(* Model of the chat pipeline of medical_chat_rag: the conversation        *)
(* memory (src/lib/chat-memory.ts), the retrieval helpers                  *)
(* (src/lib/retrieval.ts), the chat orchestrator                           *)
(* (src/lib/chat-orchestrator.ts) and the streaming chat routes            *)
(* (src/app/api/chat/message/route.ts and its older copy).                 *)
(*                                                                         *)
(* Text is a sequence of one-character (or opaque token) strings, so that  *)
(* string concatenation is \o and the empty string is << >>.  Similarities *)
(* and thresholds are integers in hundredths (0.6 is 60).                  *)
(***************************************************************************)
EXTENDS Integers, Sequences, FiniteSets, TLC

VARIABLES
  chat_sessions,     \* rows of table chat_sessions
  chat_messages,     \* rows of table chat_messages
  document_chunks,   \* rows of table document_chunks, with their similarity to the query
  now,               \* store clock: source of created_at and of row ids
  req,               \* body of the HTTP request being served
  pc,                \* position of the request inside the route / orchestrator
  currentSessionId,  \* local of processChat / processChatStream
  relevantChunks,    \* local: result of hybridSearch
  history,           \* local: result of getChatHistory(currentSessionId, 10)
  histBase,          \* the session's rows at the moment history was read
  genArgs,           \* arguments the generation capability was invoked with
  fullResponse,      \* local of processChatStream / response of processChat
  emitted,           \* text fragments handed to the caller, in order
  events,            \* order of the observable steps of the invocation
  userSave,          \* outcome of saveChatMessage(.., "user", ..): none/ok/failed
  asstSave,          \* outcome of saveChatMessage(.., "assistant", ..)
  isFirstChunk,      \* local of the route's ReadableStream.start
  enqueued,          \* frames passed to controller.enqueue, in order
  controller,        \* state of the response stream: open/closed/errored/cancelled/json/none
  error,             \* stage that made the invocation throw, or "none"
  saved,             \* memory harness: successful saves per session, in call order
  lastRead,          \* memory harness: outcome of the last getChatHistory call
  lastDelete,        \* session harness: outcome of the last deleteChatSession call
  search,            \* retrieval harness: the last search call and its outcome
  chunking,          \* ingestion harness: the last processDocument call and its outcome
  upload,            \* the upload request being served and its position in the route
  medical_documents, \* rows of table medical_documents
  storage,           \* objects of the storage bucket
  turns,             \* concurrent processChatStream invocations on one session
  client             \* locals of the stream reader of useChatStream.sendMessage

vars == <<chat_sessions, chat_messages, document_chunks, now, req, pc,
          currentSessionId, relevantChunks, history, histBase, genArgs,
          fullResponse, emitted, events, userSave, asstSave, isFirstChunk,
          enqueued, controller, error, saved, lastRead, lastDelete, search,
          chunking, upload, medical_documents, storage, turns, client>>

storeVars == <<chat_sessions, chat_messages, document_chunks, now>>
callVars  == <<req, pc, currentSessionId, relevantChunks, history, histBase,
               genArgs, fullResponse, emitted, events, userSave, asstSave,
               isFirstChunk, enqueued, controller, error, client>>
memVars   == <<saved, lastRead>>
ingVars   == <<chunking, upload, medical_documents, storage>>
auxVars   == <<lastDelete, search, ingVars, turns>>

---------------------------------------------------------------------------
(* Bounds *)

MaxPrior     == 11   \* messages a session may already hold when the turn starts
MaxFragments == 2    \* text fragments a generation stream may yield
MaxSaves     == 3    \* saveChatMessage calls of the memory harness
MaxSessionOps == 4   \* store writes of the session harness
MaxParagraphs == 3   \* paragraphs of an input text of the chunker

(* Program constants *)

HistoryWindow    == 10   \* getChatHistory(currentSessionId, 10)
ChatTopK         == 5    \* hybridSearch(.., { topK: 5, .. })
ChatThreshold    == 60   \* hybridSearch(.., { threshold: 0.6 })
DefaultTopK      == 5    \* DEFAULT_RETRIEVAL_CONFIG.topK
DefaultThreshold == 70   \* DEFAULT_RETRIEVAL_CONFIG.threshold
HybridThreshold  == 50   \* config.threshold || 0.5
SearchDefaultTopK == 5        \* body.topK || 5
SearchDefaultThreshold == 70  \* body.threshold || 0.7
SearchMaxTopK == 20           \* Math.min(.., 20)
SearchMaxThreshold == 100     \* Math.min(.., 1)
MinChunkLength == 50          \* chunks.filter(chunk => chunk.length >= 50)
WordLengthEstimate == 5       \* Math.ceil(chunkOverlap / 5)
ScenarioConfig == [chunkSize |-> 20, chunkOverlap |-> 5]
MEDICAL_CHUNK_CONFIG == [chunkSize |-> 1200, chunkOverlap |-> 250]
EMBEDDING_DIMENSIONS == 768   \* outputDimensionality, and the column VECTOR(768)
OtherDimensions == 3072       \* another length the provider can produce
DefaultLimit     == 50   \* getChatHistory(sessionId, limit = 50)

---------------------------------------------------------------------------
(* Values *)

Undefined == "undefined"          \* an omitted optional argument
EmptyString == << >>

Roles == {"user", "assistant", "system"}
Documents == {"d1", "d2"}
ExistingSession == "s1"           \* a session row present before the turn
UnknownSession == "s9"            \* an id with no row in chat_sessions
NewSession == "s2"                \* the id gen_random_uuid() gives the next session
Fragments == { <<"a">>, <<"b", "c">> }
Questions == { <<"q">> }

(* The chunk tables the turn may run against. *)
ChunkTables ==
  { {},
    { [id |-> "c1", document_id |-> "d1", similarity |-> 90],
      [id |-> "c2", document_id |-> "d1", similarity |-> 65],
      [id |-> "c3", document_id |-> "d1", similarity |-> 55],
      [id |-> "c4", document_id |-> "d2", similarity |-> 75] } }

---------------------------------------------------------------------------
(* Sequence helpers *)

Last(n, s) == IF Len(s) <= n THEN s ELSE SubSeq(s, Len(s) - n + 1, Len(s))
Take(n, s) == IF Len(s) <= n THEN s ELSE SubSeq(s, 1, n)

RECURSIVE Flatten(_)
Flatten(ss) == IF ss = << >> THEN << >> ELSE Head(ss) \o Flatten(Tail(ss))

RECURSIVE Join(_, _)
Join(ss, sep) ==
  IF ss = << >> THEN << >>
  ELSE IF Len(ss) = 1 THEN Head(ss)
  ELSE Head(ss) \o sep \o Join(Tail(ss), sep)

Count(s, e) == Cardinality({ i \in 1..Len(s) : s[i] = e })
Index(s, e) == IF \E i \in 1..Len(s) : s[i] = e
               THEN CHOOSE i \in 1..Len(s) : s[i] = e /\ \A j \in 1..(i-1) : s[j] # e
               ELSE 0

Whitespace == {" ", "\t", "\n", "\r", "\f"}    \* \s, within the alphabet used
Terminators == {".", "!", "?"}                 \* [.!?]

Drop(n, s) == IF n >= Len(s) THEN << >> ELSE SubSeq(s, n + 1, Len(s))

(* Position of the first character of s at or after i that is in cs, or     *)
(* Len(s) + 1.                                                              *)
Find(s, i, cs) ==
  IF \E k \in i..Len(s) : s[k] \in cs
  THEN CHOOSE k \in i..Len(s) : s[k] \in cs /\ \A j \in i..(k - 1) : s[j] \notin cs
  ELSE Len(s) + 1

(* Position of the first character of s at or after i that is not in cs.    *)
FindNot(s, i, cs) ==
  IF \E k \in i..Len(s) : s[k] \notin cs
  THEN CHOOSE k \in i..Len(s) : s[k] \notin cs /\ \A j \in i..(k - 1) : s[j] \in cs
  ELSE Len(s) + 1

(* Position of the first occurrence of the sequence pat in s, or 0. *)
FindSeq(s, pat) ==
  LET Here(k) == \A j \in 1..Len(pat) : s[k + j - 1] = pat[j]
      last == Len(s) - Len(pat) + 1
  IN  IF \E k \in 1..last : Here(k)
      THEN CHOOSE k \in 1..last : Here(k) /\ \A j \in 1..(k - 1) : ~Here(j)
      ELSE 0

(* String.prototype.trim *)
Trim(s) ==
  IF \A k \in 1..Len(s) : s[k] \in Whitespace THEN << >>
  ELSE SubSeq(s, FindNot(s, 1, Whitespace),
              CHOOSE k \in 1..Len(s) :
                 s[k] \notin Whitespace /\ \A j \in (k + 1)..Len(s) : s[j] \in Whitespace)

---------------------------------------------------------------------------
(* The store: tables chat_sessions and chat_messages (schema in the design  *)
(* document) and the operations of src/lib/chat-memory.ts                   *)

(* ORDER BY created_at ASC over a set of rows; created_at comes from the    *)
(* store clock, the row id breaks a tie.                                    *)
RECURSIVE OrderByCreatedAt(_)
OrderByCreatedAt(rows) ==
  IF rows = {} THEN << >>
  ELSE LET first == CHOOSE m \in rows :
                      \A o \in rows :
                        \/ m.created_at < o.created_at
                        \/ (m.created_at = o.created_at /\ m.id <= o.id)
       IN  <<first>> \o OrderByCreatedAt(rows \ {first})

SessionRows(messages, sessionId) == { m \in messages : m.session_id = sessionId }

(* createChatSession: the inserted row; title is not supplied by the chat   *)
(* pipeline, created_at and updated_at take their DEFAULT NOW().            *)
createChatSession(documentId, id, clock) ==
  [id |-> id, document_id |-> documentId, title |-> Undefined,
   created_at |-> clock, updated_at |-> clock]

(* saveChatMessage succeeds when the store answers and the foreign key      *)
(* chat_messages.session_id -> chat_sessions(id) is satisfied.              *)
saveChatMessageOk(sessions, sessionId, storeOk) ==
  storeOk /\ \E s \in sessions : s.id = sessionId

(* saveChatMessage: the table after the call. *)
saveChatMessage(messages, sessions, clock, sessionId, role, content, storeOk) ==
  IF saveChatMessageOk(sessions, sessionId, storeOk)
  THEN messages \cup { [id |-> clock, session_id |-> sessionId, role |-> role,
                        content |-> content, created_at |-> clock] }
  ELSE messages

(* Variant of getChatHistory that orders newest first. *)
getChatHistory_descending(messages, sessionId, limit, storeOk) ==
  IF storeOk
  THEN LET asc == OrderByCreatedAt(SessionRows(messages, sessionId))
       IN  Take(limit, [i \in 1..Len(asc) |-> asc[Len(asc) + 1 - i]])
  ELSE << >>

(* getChatHistory: .eq(session_id).order(created_at, ascending).limit(limit); *)
(* a store error is logged and answered with the empty list.                *)
getChatHistory(messages, sessionId, limit, storeOk) ==
  IF storeOk
  THEN Take(limit, OrderByCreatedAt(SessionRows(messages, sessionId)))
  ELSE << >>

RoleLabel(role) ==
  IF role = "user" THEN "Usuario"
  ELSE IF role = "assistant" THEN "Asistente" ELSE "Sistema"

(* formatChatHistory of chat-memory.ts, the one the orchestrator imports. *)
formatChatHistory(messages) ==
  IF Len(messages) = 0 THEN EmptyString
  ELSE Join([i \in 1..Len(messages) |->
               <<RoleLabel(messages[i].role), ":", " ">> \o messages[i].content],
            <<"\n", "\n">>)

NoHistoryMarker == <<"Sin historial previo.">>

(* formatChatHistory of the response-generation module (not imported by the *)
(* orchestrator).                                                           *)
formatChatHistory_generation(messages) ==
  IF Len(messages) = 0 THEN NoHistoryMarker
  ELSE Join([i \in 1..Len(messages) |->
               <<(IF messages[i].role = "user" THEN "Usuario" ELSE "Asistente"),
                 ":", " ">> \o messages[i].content],
            <<"\n", "\n">>)

---------------------------------------------------------------------------
(* Retrieval: src/lib/retrieval.ts and the match_documents function         *)

RECURSIVE OrderBySimilarity(_)
OrderBySimilarity(rows) ==
  IF rows = {} THEN << >>
  ELSE LET best == CHOOSE c \in rows : \A o \in rows : c.similarity >= o.similarity
       IN  <<best>> \o OrderBySimilarity(rows \ {best})

(* match_documents: WHERE (filter IS NULL OR document_id = filter)          *)
(* AND similarity > match_threshold ORDER BY distance LIMIT match_count.    *)
match_documents(chunks, match_threshold, match_count, filter_document_id) ==
  Take(match_count,
       OrderBySimilarity({ c \in chunks :
          /\ (filter_document_id = Undefined \/ c.document_id = filter_document_id)
          /\ c.similarity > match_threshold }))

(* config.field || fallback of JavaScript: an omitted field and 0 are falsy. *)
OrElse(config, field, fallback) ==
  IF field \in DOMAIN config /\ config[field] # 0 THEN config[field] ELSE fallback

(* { ...DEFAULT_RETRIEVAL_CONFIG, ...config }: a supplied field wins, 0 included. *)
WithDefaults(config) ==
  [topK |-> IF "topK" \in DOMAIN config THEN config.topK ELSE DefaultTopK,
   threshold |-> IF "threshold" \in DOMAIN config THEN config.threshold
                 ELSE DefaultThreshold]

searchDocumentChunks(chunks, documentId, config) ==
  match_documents(chunks, WithDefaults(config).threshold,
                  WithDefaults(config).topK, documentId)

semanticSearch(chunks, config) ==
  match_documents(chunks, WithDefaults(config).threshold,
                  WithDefaults(config).topK, Undefined)

(* The configuration of the first pass of hybridSearch:                     *)
(* (config.topK || DEFAULT_RETRIEVAL_CONFIG.topK) * 2 and                   *)
(* config.threshold || 0.5.                                                 *)
hybridSearch_config(config) ==
  [topK |-> OrElse(config, "topK", DefaultTopK) * 2,
   threshold |-> OrElse(config, "threshold", HybridThreshold)]

hybridSearch(chunks, documentId, config) ==
  LET results == searchDocumentChunks(chunks, documentId, hybridSearch_config(config))
      finalThreshold == OrElse(config, "threshold", DefaultThreshold)
      finalTopK == OrElse(config, "topK", DefaultTopK)
  IN  Take(finalTopK,
           SelectSeq(results, LAMBDA c : c.similarity >= finalThreshold))

NoContextMarker == <<"No se encontro informacion relevante en el documento.">>

formatChunksAsContext(chunks) ==
  IF Len(chunks) = 0 THEN NoContextMarker
  ELSE Join([i \in 1..Len(chunks) |->
               <<"[Fragmento ", ToString(i), " - Similitud: ",
                 ToString(chunks[i].similarity), ".0", "%]", "\n", chunks[i].id>>],
            <<"\n", "\n", "---", "\n", "\n">>)

---------------------------------------------------------------------------
(* The chat routes and the orchestrator                                     *)

(* The session frame JSON.stringify({ sessionId }) + "\n\n" and a text frame. *)
SessionFrame(id) ==
  [type |-> "session", body |-> <<"{", "\"sessionId\"", ":", "\"", id, "\"", "}", "\n", "\n">>]
TextFrame(chunk) == [type |-> "text", body |-> chunk]

(* The message route passes its callbacks as the fifth argument; the older  *)
(* copy of the route passes them in the position of config, so the          *)
(* orchestrator sees no callbacks.                                          *)
CallbacksGiven == req.route = "message"

(* !sessionId and !message of JavaScript: undefined and "" are falsy. *)
Truthy(x) == x # Undefined
TruthyText(x) == x # EmptyString

(* An exception leaving the orchestrator: the streaming route answers       *)
(* controller.error, the blocking route a 500 JSON body.                    *)
Throw(stage) ==
  /\ pc' = "failed"
  /\ error' = stage
  /\ controller' = IF ~req.stream THEN "json500"
                   ELSE IF controller = "cancelled" THEN "cancelled" ELSE "errored"

(* The session's rows written since the request started. *)
TurnMessages == { m \in chat_messages : m.id >= req.startedAt }
TurnMessagesOf(role) == { m \in TurnMessages : m.role = role }

NoClient == [sessionIdRef |-> Undefined, accumulatedResponse |-> EmptyString, read |-> 0]

NoRequest ==
  [route |-> "none", stream |-> FALSE, message |-> EmptyString,
   documentId |-> "d1", sessionId |-> Undefined, authenticated |-> FALSE,
   startedAt |-> 0]

(* POST of the chat route: parse the body, validate, authenticate, then     *)
(* start the stream or the blocking call.  The sessionId of the body is the *)
(* sessionIdRef.current of the client that sent it.                         *)
POST ==
  /\ pc = "idle"
  /\ \E route \in {"message", "legacy"}, stream \in BOOLEAN,
        message \in Questions \cup {EmptyString}, documentId \in Documents,
        sessionId \in {Undefined, ExistingSession, UnknownSession},
        authenticated \in BOOLEAN :
       /\ req' = [route |-> route, stream |-> stream, message |-> message,
                  documentId |-> documentId, sessionId |-> sessionId,
                  authenticated |-> authenticated, startedAt |-> now]
       /\ client' = [NoClient EXCEPT !.sessionIdRef = sessionId]
       /\ IF ~TruthyText(message)
          THEN pc' = "rejected" /\ controller' = "json400" /\ isFirstChunk' = isFirstChunk
          ELSE IF route = "message" /\ ~authenticated
          THEN pc' = "rejected" /\ controller' = "json401" /\ isFirstChunk' = isFirstChunk
          ELSE /\ pc' = "session"
               /\ controller' = IF stream THEN "open" ELSE "pending"
               /\ isFirstChunk' = TRUE
  /\ UNCHANGED <<storeVars, currentSessionId, relevantChunks, history, histBase,
                 genArgs, fullResponse, emitted, events, userSave, asstSave,
                 enqueued, error, memVars, auxVars>>

(* onSessionCreated of the route: the session frame, once. *)
onSessionCreated(newSessionId) ==
  IF isFirstChunk
  THEN enqueued' = Append(enqueued, SessionFrame(newSessionId)) /\ isFirstChunk' = FALSE
  ELSE UNCHANGED <<enqueued, isFirstChunk>>

(* Variant of step 1 that also notifies onSessionCreated for a supplied id. *)
processChatStream_Session_alwaysNotifies ==
  /\ pc = "session" /\ req.stream
  /\ IF ~Truthy(req.sessionId)
     THEN \E storeOk \in BOOLEAN :
            IF storeOk
            THEN /\ chat_sessions' = chat_sessions \cup
                                     {createChatSession(req.documentId, NewSession, now)}
                 /\ currentSessionId' = NewSession
                 /\ IF CallbacksGiven
                    THEN /\ events' = events \o <<"create_session", "session_created">>
                         /\ onSessionCreated(NewSession)
                    ELSE /\ events' = Append(events, "create_session")
                         /\ UNCHANGED <<enqueued, isFirstChunk>>
                 /\ pc' = "retrieve"
                 /\ UNCHANGED <<error, controller>>
            ELSE /\ Throw("session")
                 /\ UNCHANGED <<chat_sessions, currentSessionId, events, enqueued,
                                isFirstChunk>>
     ELSE /\ currentSessionId' = req.sessionId
          /\ IF CallbacksGiven
             THEN /\ events' = Append(events, "session_created")
                  /\ onSessionCreated(req.sessionId)
             ELSE UNCHANGED <<events, enqueued, isFirstChunk>>
          /\ pc' = "retrieve"
          /\ UNCHANGED <<chat_sessions, error, controller>>
  /\ UNCHANGED <<chat_messages, document_chunks, now, req, relevantChunks, history,
                 histBase, genArgs, fullResponse, emitted, userSave, asstSave, memVars, auxVars, client>>

(* processChatStream, step 1: resolve or create the session. *)
processChatStream_Session ==
  /\ pc = "session" /\ req.stream
  /\ IF ~Truthy(req.sessionId)
     THEN \E storeOk \in BOOLEAN :
            IF storeOk
            THEN /\ chat_sessions' = chat_sessions \cup
                                     {createChatSession(req.documentId, NewSession, now)}
                 /\ currentSessionId' = NewSession
                 /\ IF CallbacksGiven
                    THEN /\ events' = events \o <<"create_session", "session_created">>
                         /\ onSessionCreated(NewSession)
                    ELSE /\ events' = Append(events, "create_session")
                         /\ UNCHANGED <<enqueued, isFirstChunk>>
                 /\ pc' = "retrieve"
                 /\ UNCHANGED <<error, controller>>
            ELSE /\ Throw("session")
                 /\ UNCHANGED <<chat_sessions, currentSessionId, events, enqueued,
                                isFirstChunk>>
     ELSE /\ currentSessionId' = req.sessionId
          /\ pc' = "retrieve"
          /\ UNCHANGED <<chat_sessions, events, enqueued, isFirstChunk, error, controller>>
  /\ UNCHANGED <<chat_messages, document_chunks, now, req, relevantChunks, history,
                 histBase, genArgs, fullResponse, emitted, userSave, asstSave, memVars, auxVars, client>>

(* Variant of step 2 that treats a failed search as an empty result. *)
processChatStream_Retrieve_swallowsError ==
  /\ pc = "retrieve" /\ req.stream
  /\ \E searchOk \in BOOLEAN :
       IF searchOk
       THEN /\ relevantChunks' = hybridSearch(document_chunks, req.documentId,
                                   [topK |-> ChatTopK, threshold |-> ChatThreshold])
            /\ events' = IF CallbacksGiven
                         THEN events \o <<"retrieval", "sources_retrieved">>
                         ELSE Append(events, "retrieval")
       ELSE /\ relevantChunks' = << >>
            /\ events' = Append(events, "retrieval_failed")
  /\ pc' = "history"
  /\ UNCHANGED <<storeVars, req, currentSessionId, history, histBase, genArgs,
                 fullResponse, emitted, userSave, asstSave, isFirstChunk, enqueued,
                 controller, error, memVars, auxVars, client>>

(* Variant of step 2 that notifies onSourcesRetrieved before the search     *)
(* has answered.                                                            *)
processChatStream_Retrieve_notifiesFirst ==
  /\ pc = "retrieve" /\ req.stream
  /\ \E searchOk \in BOOLEAN :
       IF searchOk
       THEN /\ relevantChunks' = hybridSearch(document_chunks, req.documentId,
                                   [topK |-> ChatTopK, threshold |-> ChatThreshold])
            /\ events' = IF CallbacksGiven
                         THEN events \o <<"sources_retrieved", "retrieval">>
                         ELSE Append(events, "retrieval")
            /\ pc' = "history"
            /\ UNCHANGED <<error, controller>>
       ELSE /\ Throw("retrieval")
            /\ events' = IF CallbacksGiven
                         THEN events \o <<"sources_retrieved", "retrieval_failed">>
                         ELSE Append(events, "retrieval_failed")
            /\ UNCHANGED relevantChunks
  /\ UNCHANGED <<storeVars, req, currentSessionId, history, histBase, genArgs,
                 fullResponse, emitted, userSave, asstSave, isFirstChunk, enqueued,
                 memVars, auxVars, client>>

(* processChatStream, step 2: hybridSearch, then onSourcesRetrieved.        *)
(* searchDocumentChunks throws on an embedding or store error.              *)
processChatStream_Retrieve ==
  /\ pc = "retrieve" /\ req.stream
  /\ \E searchOk \in BOOLEAN :
       IF searchOk
       THEN /\ relevantChunks' = hybridSearch(document_chunks, req.documentId,
                                   [topK |-> ChatTopK, threshold |-> ChatThreshold])
            /\ events' = IF CallbacksGiven
                         THEN events \o <<"retrieval", "sources_retrieved">>
                         ELSE Append(events, "retrieval")
            /\ pc' = "history"
            /\ UNCHANGED <<error, controller>>
       ELSE /\ Throw("retrieval")
            /\ events' = Append(events, "retrieval_failed")
            /\ UNCHANGED relevantChunks
  /\ UNCHANGED <<storeVars, req, currentSessionId, history, histBase, genArgs,
                 fullResponse, emitted, userSave, asstSave, isFirstChunk, enqueued,
                 memVars, auxVars, client>>

(* processChatStream, step 3: getChatHistory(currentSessionId, 10). *)
processChatStream_History ==
  /\ pc = "history" /\ req.stream
  /\ \E storeOk \in BOOLEAN :
       /\ history' = getChatHistory(chat_messages, currentSessionId, HistoryWindow, storeOk)
       /\ histBase' = [ok |-> storeOk,
                       rows |-> OrderByCreatedAt(SessionRows(chat_messages, currentSessionId))]
  /\ events' = Append(events, "history")
  /\ pc' = "save_user"
  /\ UNCHANGED <<storeVars, req, currentSessionId, relevantChunks, genArgs,
                 fullResponse, emitted, userSave, asstSave, isFirstChunk, enqueued,
                 controller, error, memVars, auxVars, client>>

(* processChatStream, step 4: the user message is saved before generation;  *)
(* the result of saveChatMessage is not inspected.                          *)
processChatStream_SaveUser ==
  /\ pc = "save_user" /\ req.stream
  /\ \E storeOk \in BOOLEAN :
       /\ chat_messages' = saveChatMessage(chat_messages, chat_sessions, now,
                                           currentSessionId, "user", req.message, storeOk)
       /\ userSave' = IF saveChatMessageOk(chat_sessions, currentSessionId, storeOk)
                      THEN "ok" ELSE "failed"
  /\ now' = now + 1
  /\ events' = Append(events, "save_user")
  /\ pc' = "generate"
  /\ UNCHANGED <<chat_sessions, document_chunks, req, currentSessionId, relevantChunks,
                 history, histBase, genArgs, fullResponse, emitted, asstSave,
                 isFirstChunk, enqueued, controller, error, memVars, auxVars, client>>

(* processChatStream, step 5: generateResponseStream is invoked. *)
processChatStream_Generate ==
  /\ pc = "generate" /\ req.stream
  /\ genArgs' = [context |-> formatChunksAsContext(relevantChunks),
                 chatHistory |-> formatChatHistory(history),
                 question |-> req.message]
  /\ fullResponse' = EmptyString
  /\ events' = Append(events, "generate")
  /\ pc' = "streaming"
  /\ UNCHANGED <<storeVars, req, currentSessionId, relevantChunks, history, histBase,
                 emitted, userSave, asstSave, isFirstChunk, enqueued, controller,
                 error, memVars, auxVars, client>>

(* Variant of the yield step whose enqueue still writes after the stream    *)
(* was cancelled.                                                           *)
processChatStream_Yield_writesAfterCancel ==
  /\ pc = "streaming" /\ req.stream
  /\ Len(emitted) < MaxFragments
  /\ \E chunk \in Fragments :
       /\ fullResponse' = fullResponse \o chunk
       /\ emitted' = Append(emitted, chunk)
       /\ IF isFirstChunk /\ Truthy(req.sessionId)
          THEN /\ enqueued' = enqueued \o <<SessionFrame(req.sessionId), TextFrame(chunk)>>
               /\ isFirstChunk' = FALSE
          ELSE /\ enqueued' = Append(enqueued, TextFrame(chunk))
               /\ UNCHANGED isFirstChunk
       /\ UNCHANGED <<pc, error, controller>>
  /\ events' = Append(events, "fragment")
  /\ UNCHANGED <<storeVars, req, currentSessionId, relevantChunks, history,
                 histBase, genArgs, userSave, asstSave, memVars, auxVars, client>>

(* The generation stream yields a fragment: the orchestrator accumulates it *)
(* and yields it, and the route's loop enqueues it, after the session frame *)
(* when none was sent and a sessionId was supplied.  When the stream behind *)
(* the response was cancelled, controller.enqueue throws (the stream is no  *)
(* longer readable), which leaves the route's for await and so calls        *)
(* return() on the generator; the route's catch calls controller.error,     *)
(* which does nothing on a cancelled stream.                                *)
processChatStream_Yield ==
  /\ pc = "streaming" /\ req.stream
  /\ Len(emitted) < MaxFragments
  /\ \E chunk \in Fragments :
       /\ fullResponse' = fullResponse \o chunk
       /\ emitted' = Append(emitted, chunk)
       /\ IF controller = "cancelled"
          THEN /\ pc' = "returned"
               /\ error' = "cancelled"
               /\ UNCHANGED <<enqueued, isFirstChunk, controller>>
          ELSE /\ IF isFirstChunk /\ Truthy(req.sessionId)
                  THEN /\ enqueued' = enqueued \o <<SessionFrame(req.sessionId),
                                                    TextFrame(chunk)>>
                       /\ isFirstChunk' = FALSE
                  ELSE /\ enqueued' = Append(enqueued, TextFrame(chunk))
                       /\ UNCHANGED isFirstChunk
               /\ UNCHANGED <<pc, error, controller>>
  /\ events' = Append(events, "fragment")
  /\ UNCHANGED <<storeVars, req, currentSessionId, relevantChunks, history,
                 histBase, genArgs, userSave, asstSave, memVars, auxVars, client>>

(* The caller disconnects while the response is being generated: the        *)
(* platform cancels the ReadableStream, whose underlying source has no      *)
(* cancel method.                                                           *)
Client_Disconnect ==
  /\ pc = "streaming" /\ req.stream
  /\ controller = "open"
  /\ controller' = "cancelled"
  /\ events' = Append(events, "cancel")
  /\ UNCHANGED <<storeVars, req, pc, currentSessionId, relevantChunks, history,
                 histBase, genArgs, fullResponse, emitted, userSave, asstSave,
                 isFirstChunk, enqueued, error, memVars, auxVars, client>>

(* Variant of the failing stream that saves what was generated so far. *)
processChatStream_GenerationThrows_savesPartial ==
  /\ pc = "streaming" /\ req.stream
  /\ Throw("generation")
  /\ chat_messages' = saveChatMessage(chat_messages, chat_sessions, now,
                                      currentSessionId, "assistant", fullResponse, TRUE)
  /\ now' = now + 1
  /\ events' = Append(events, "generation_failed")
  /\ UNCHANGED <<chat_sessions, document_chunks, req, currentSessionId, relevantChunks,
                 history, histBase, genArgs, fullResponse, emitted, userSave, asstSave,
                 isFirstChunk, enqueued, memVars, auxVars, client>>

(* The generation stream throws: the exception leaves the generator and the *)
(* route answers controller.error; nothing is saved.                        *)
processChatStream_GenerationThrows ==
  /\ pc = "streaming" /\ req.stream
  /\ Throw("generation")
  /\ events' = Append(events, "generation_failed")
  /\ UNCHANGED <<storeVars, req, currentSessionId, relevantChunks, history, histBase,
                 genArgs, fullResponse, emitted, userSave, asstSave,
                 isFirstChunk, enqueued, memVars, auxVars, client>>

(* The stream is exhausted: step 6 saves the full response, the generator   *)
(* returns and the route closes the controller.                             *)
processChatStream_SaveAssistant ==
  /\ pc = "streaming" /\ req.stream
  /\ \E storeOk \in BOOLEAN :
       /\ chat_messages' = saveChatMessage(chat_messages, chat_sessions, now,
                                           currentSessionId, "assistant", fullResponse,
                                           storeOk)
       /\ asstSave' = IF saveChatMessageOk(chat_sessions, currentSessionId, storeOk)
                      THEN "ok" ELSE "failed"
  /\ now' = now + 1
  /\ events' = Append(events, "save_assistant")
  /\ controller' = IF controller = "cancelled" THEN "cancelled" ELSE "closed"
  /\ pc' = "done"
  /\ UNCHANGED <<chat_sessions, document_chunks, req, currentSessionId, relevantChunks,
                 history, histBase, genArgs, fullResponse, emitted, userSave,
                 isFirstChunk, enqueued, error, memVars, auxVars, client>>

(* The reader loop of useChatStream.sendMessage: one reader.read() of the   *)
(* response body.  The transport hands over the bytes enqueued so far, one  *)
(* or several enqueued frames in one chunk.  Without a session id the       *)
(* client looks for {"sessionId":"..."} in the chunk, keeps the id and      *)
(* appends the chunk without the match, trimStart()ed; otherwise it appends *)
(* the chunk as it is.                                                      *)
sendMessage_read ==
  /\ req.stream /\ controller \in {"open", "closed"}
  /\ client.read < Len(enqueued)
  /\ \E n \in 1..(Len(enqueued) - client.read) :
       LET chunk == Flatten([i \in 1..n |-> enqueued[client.read + i].body])
           at == FindSeq(chunk, <<"{", "\"sessionId\"", ":">>)
           match == /\ at # 0 /\ at + 6 <= Len(chunk)
                    /\ chunk[at + 3] = "\"" /\ chunk[at + 4] # "\""
                    /\ chunk[at + 5] = "\"" /\ chunk[at + 6] = "}"
           replaced == SubSeq(chunk, 1, at - 1) \o Drop(at + 6, chunk)
           cleanChunk == Drop(FindNot(replaced, 1, Whitespace) - 1, replaced)
       IN  client' =
             IF ~Truthy(client.sessionIdRef) /\ match
             THEN [sessionIdRef |-> chunk[at + 4],
                   accumulatedResponse |-> client.accumulatedResponse \o cleanChunk,
                   read |-> client.read + n]
             ELSE [client EXCEPT !.accumulatedResponse = @ \o chunk,
                                 !.read = @ + n]
  /\ UNCHANGED <<storeVars, req, pc, currentSessionId, relevantChunks, history,
                 histBase, genArgs, fullResponse, emitted, events, userSave, asstSave,
                 isFirstChunk, enqueued, controller, error, memVars, auxVars>>

---------------------------------------------------------------------------
(* processChat, the blocking mode                                           *)

Responses == Fragments \cup {EmptyString, <<"a", "b", "c">>}

(* processChat, step 1: resolve or create the session. *)
processChat_Session ==
  /\ pc = "session" /\ ~req.stream
  /\ IF ~Truthy(req.sessionId)
     THEN \E storeOk \in BOOLEAN :
            IF storeOk
            THEN /\ chat_sessions' = chat_sessions \cup
                                     {createChatSession(req.documentId, NewSession, now)}
                 /\ currentSessionId' = NewSession
                 /\ events' = Append(events, "create_session")
                 /\ pc' = "retrieve"
                 /\ UNCHANGED <<error, controller>>
            ELSE /\ Throw("session")
                 /\ UNCHANGED <<chat_sessions, currentSessionId, events>>
     ELSE /\ currentSessionId' = req.sessionId
          /\ pc' = "retrieve"
          /\ UNCHANGED <<chat_sessions, events, error, controller>>
  /\ UNCHANGED <<chat_messages, document_chunks, now, req, relevantChunks, history,
                 histBase, genArgs, fullResponse, emitted, userSave, asstSave,
                 isFirstChunk, enqueued, memVars, auxVars, client>>

(* processChat, step 2: hybridSearch. *)
processChat_Retrieve ==
  /\ pc = "retrieve" /\ ~req.stream
  /\ \E searchOk \in BOOLEAN :
       IF searchOk
       THEN /\ relevantChunks' = hybridSearch(document_chunks, req.documentId,
                                   [topK |-> ChatTopK, threshold |-> ChatThreshold])
            /\ events' = Append(events, "retrieval")
            /\ pc' = "history"
            /\ UNCHANGED <<error, controller>>
       ELSE /\ Throw("retrieval")
            /\ events' = Append(events, "retrieval_failed")
            /\ UNCHANGED relevantChunks
  /\ UNCHANGED <<storeVars, req, currentSessionId, history, histBase, genArgs,
                 fullResponse, emitted, userSave, asstSave, isFirstChunk, enqueued,
                 memVars, auxVars, client>>

(* processChat, step 3: getChatHistory(currentSessionId, 10). *)
processChat_History ==
  /\ pc = "history" /\ ~req.stream
  /\ \E storeOk \in BOOLEAN :
       /\ history' = getChatHistory(chat_messages, currentSessionId, HistoryWindow, storeOk)
       /\ histBase' = [ok |-> storeOk,
                       rows |-> OrderByCreatedAt(SessionRows(chat_messages, currentSessionId))]
  /\ events' = Append(events, "history")
  /\ pc' = "generate"
  /\ UNCHANGED <<storeVars, req, currentSessionId, relevantChunks, genArgs,
                 fullResponse, emitted, userSave, asstSave, isFirstChunk, enqueued,
                 controller, error, memVars, auxVars, client>>

(* processChat, step 4: generateResponse is invoked and returns the whole   *)
(* response, or throws.                                                     *)
processChat_Generate ==
  /\ pc = "generate" /\ ~req.stream
  /\ genArgs' = [context |-> formatChunksAsContext(relevantChunks),
                 chatHistory |-> formatChatHistory(history),
                 question |-> req.message]
  /\ \E generationOk \in BOOLEAN :
       IF generationOk
       THEN /\ \E response \in Responses : fullResponse' = response
            /\ events' = Append(events, "generate")
            /\ pc' = "save_user"
            /\ UNCHANGED <<error, controller>>
       ELSE /\ Throw("generation")
            /\ events' = events \o <<"generate", "generation_failed">>
            /\ UNCHANGED fullResponse
  /\ UNCHANGED <<storeVars, req, currentSessionId, relevantChunks, history, histBase,
                 emitted, userSave, asstSave, isFirstChunk, enqueued, memVars, auxVars, client>>

(* processChat, step 5, first half: the user message is saved after the     *)
(* response was generated.                                                  *)
processChat_SaveUser ==
  /\ pc = "save_user" /\ ~req.stream
  /\ \E storeOk \in BOOLEAN :
       /\ chat_messages' = saveChatMessage(chat_messages, chat_sessions, now,
                                           currentSessionId, "user", req.message, storeOk)
       /\ userSave' = IF saveChatMessageOk(chat_sessions, currentSessionId, storeOk)
                      THEN "ok" ELSE "failed"
  /\ now' = now + 1
  /\ events' = Append(events, "save_user")
  /\ pc' = "save_assistant"
  /\ UNCHANGED <<chat_sessions, document_chunks, req, currentSessionId, relevantChunks,
                 history, histBase, genArgs, fullResponse, emitted, asstSave,
                 isFirstChunk, enqueued, controller, error, memVars, auxVars, client>>

(* processChat, step 5, second half, and the return of the result, which    *)
(* the route answers as a JSON body.                                        *)
processChat_SaveAssistant ==
  /\ pc = "save_assistant" /\ ~req.stream
  /\ \E storeOk \in BOOLEAN :
       /\ chat_messages' = saveChatMessage(chat_messages, chat_sessions, now,
                                           currentSessionId, "assistant", fullResponse,
                                           storeOk)
       /\ asstSave' = IF saveChatMessageOk(chat_sessions, currentSessionId, storeOk)
                      THEN "ok" ELSE "failed"
  /\ now' = now + 1
  /\ events' = Append(events, "save_assistant")
  /\ emitted' = <<fullResponse>>
  /\ controller' = "json200"
  /\ pc' = "done"
  /\ UNCHANGED <<chat_sessions, document_chunks, req, currentSessionId, relevantChunks,
                 history, histBase, genArgs, fullResponse, userSave, isFirstChunk,
                 enqueued, error, memVars, auxVars, client>>

---------------------------------------------------------------------------
(* One chat turn against a store that already holds a session               *)

(* The rows of a session that already went through n messages: user and    *)
(* assistant alternate, created_at increases with the insertion.            *)
PriorMessages(n) ==
  { [id |-> i, session_id |-> ExistingSession,
     role |-> IF i % 2 = 1 THEN "user" ELSE "assistant",
     content |-> <<"m", ToString(i)>>, created_at |-> i] : i \in 1..n }

NoRead == [sessionId |-> Undefined, limit |-> 0, ok |-> FALSE, rows |-> << >>,
           savedThen |-> << >>]
NoGenArgs == [context |-> EmptyString, chatHistory |-> EmptyString, question |-> EmptyString]

NoDelete == [sessionId |-> Undefined, ok |-> FALSE, gone |-> {}, route |-> FALSE, at |-> 0]

NoSearch == [op |-> "none", documentId |-> Undefined, config |-> [f \in {} |-> 0],
             ok |-> FALSE, used |-> [f \in {} |-> 0], results |-> << >>]
NoChunking == [op |-> "none", text |-> EmptyString,
               config |-> [chunkSize |-> 0, chunkOverlap |-> 0],
               before |-> << >>, chunks |-> << >>,
               result |-> [success |-> FALSE, chunks |-> << >>, totalChunks |-> 0,
                           error |-> "none"]]
NoUpload == [pc |-> "idle", route |-> "none", text |-> EmptyString, status |-> 0,
             storagePath |-> Undefined, documentId |-> Undefined,
             result |-> [success |-> FALSE, chunks |-> << >>, error |-> "none"],
             response |-> [error |-> FALSE, embeddings |-> << >>, defined |-> FALSE]]

AuxInit ==
  /\ lastDelete = NoDelete
  /\ search = NoSearch
  /\ chunking = NoChunking
  /\ upload = NoUpload
  /\ medical_documents = {}
  /\ storage = {}
  /\ turns = << >>
  /\ client = NoClient

CallInit ==
  /\ req = NoRequest
  /\ pc = "idle"
  /\ currentSessionId = Undefined
  /\ relevantChunks = << >>
  /\ history = << >>
  /\ histBase = [ok |-> FALSE, rows |-> << >>]
  /\ genArgs = NoGenArgs
  /\ fullResponse = EmptyString
  /\ emitted = << >>
  /\ events = << >>
  /\ userSave = "none"
  /\ asstSave = "none"
  /\ isFirstChunk = TRUE
  /\ enqueued = << >>
  /\ controller = "none"
  /\ error = "none"

Init ==
  /\ chat_sessions = {createChatSession("d1", ExistingSession, 0)}
  /\ \E n \in 0..MaxPrior :
       /\ chat_messages = PriorMessages(n)
       /\ now = n + 1
  /\ document_chunks \in ChunkTables
  /\ CallInit
  /\ saved = << >>
  /\ lastRead = NoRead
  /\ AuxInit

Next ==
  \/ POST
  \/ processChatStream_Session
  \/ processChatStream_Retrieve
  \/ processChatStream_History
  \/ processChatStream_SaveUser
  \/ processChatStream_Generate
  \/ processChatStream_Yield
  \/ Client_Disconnect
  \/ sendMessage_read
  \/ processChatStream_GenerationThrows
  \/ processChatStream_SaveAssistant
  \/ processChat_Session
  \/ processChat_Retrieve
  \/ processChat_History
  \/ processChat_Generate
  \/ processChat_SaveUser
  \/ processChat_SaveAssistant

Spec == Init /\ [][Next]_vars

---------------------------------------------------------------------------
(* The conversation memory alone: any sequence of saveChatMessage and       *)
(* getChatHistory calls on two sessions                                     *)

MemSessions == {ExistingSession, NewSession}
MemContents == { <<"x">>, EmptyString }
MemLimits == {1, DefaultLimit}

MemInit ==
  /\ chat_sessions = { createChatSession("d1", s, 0) : s \in MemSessions }
  /\ chat_messages = {}
  /\ now = 1
  /\ document_chunks = {}
  /\ CallInit
  /\ saved = << >>
  /\ lastRead = NoRead
  /\ AuxInit

(* A caller of saveChatMessage; saved keeps the calls that reported success. *)
Mem_saveChatMessage ==
  /\ now <= MaxSaves
  /\ \E sessionId \in MemSessions, role \in Roles, content \in MemContents,
        storeOk \in BOOLEAN :
       /\ chat_messages' = saveChatMessage(chat_messages, chat_sessions, now,
                                           sessionId, role, content, storeOk)
       /\ saved' = IF saveChatMessageOk(chat_sessions, sessionId, storeOk)
                   THEN Append(saved, [session_id |-> sessionId, role |-> role,
                                       content |-> content])
                   ELSE saved
  /\ now' = now + 1
  /\ UNCHANGED <<chat_sessions, document_chunks, callVars, lastRead, auxVars>>

(* A caller of getChatHistory, such as the history route. *)
Mem_getChatHistory ==
  /\ \E sessionId \in MemSessions, limit \in MemLimits, storeOk \in BOOLEAN :
       lastRead' = [sessionId |-> sessionId, limit |-> limit, ok |-> storeOk,
                    rows |-> getChatHistory(chat_messages, sessionId, limit, storeOk),
                    savedThen |-> SelectSeq(saved, LAMBDA m : m.session_id = sessionId)]
  /\ UNCHANGED <<storeVars, callVars, saved, auxVars>>

MemNext == Mem_saveChatMessage \/ Mem_getChatHistory

MemSpec == MemInit /\ [][MemNext]_vars

---------------------------------------------------------------------------
(* Retrieval alone: hybridSearch, searchDocumentChunks, semanticSearch and  *)
(* the search route, called with any configuration on several chunk tables  *)

Chunk(id, documentId, similarity) ==
  [id |-> id, document_id |-> documentId, similarity |-> similarity]

SearchTables ==
  ChunkTables \cup
  { { Chunk("c1", "d1", 90), Chunk("c2", "d1", 75), Chunk("c3", "d1", 50) },
    { Chunk("c1", "d1", 90), Chunk("c2", "d1", 70), Chunk("c3", "d2", 95),
      Chunk("c4", "d1", 0) },
    { Chunk("c1", "d1", 99), Chunk("c2", "d1", 95), Chunk("c3", "d1", 90),
      Chunk("c4", "d1", 85), Chunk("c5", "d1", 80), Chunk("c6", "d1", 75),
      Chunk("c7", "d1", 60) } }

(* Every way of supplying or omitting the two optional fields. *)
PartialConfigs(topKs, thresholds) ==
  { [f \in {} |-> 0] } \cup { [topK |-> k] : k \in topKs }
    \cup { [threshold |-> t] : t \in thresholds }
    \cup { [topK |-> k, threshold |-> t] : k \in topKs, t \in thresholds }

(* The configurations the library searches are called with. *)
SearchConfigs == PartialConfigs({0, 1, 2, 5}, {0, 50, 60, 70, 75, 100})

Min(a, b) == IF a <= b THEN a ELSE b
Max(a, b) == IF a >= b THEN a ELSE b

(* The search route's config: Math.min(body.topK || 5, 20) and              *)
(* Math.max(0, Math.min(body.threshold || 0.7, 1)).                         *)
SearchRouteConfig(body) ==
  [topK |-> Min(OrElse(body, "topK", SearchDefaultTopK), SearchMaxTopK),
   threshold |-> Max(0, Min(OrElse(body, "threshold", SearchDefaultThreshold),
                            SearchMaxThreshold))]

RetInit ==
  /\ chat_sessions = {}
  /\ chat_messages = {}
  /\ now = 1
  /\ document_chunks \in SearchTables
  /\ CallInit
  /\ saved = << >>
  /\ lastRead = NoRead
  /\ AuxInit

(* The outcome of a search call; an RPC error makes the helper throw. *)
SearchOutcome(op, documentId, config, used, results, storeOk) ==
  [op |-> op, documentId |-> documentId, config |-> config, ok |-> storeOk,
   used |-> used, results |-> IF storeOk THEN results ELSE << >>]

Ret_hybridSearch ==
  /\ search = NoSearch
  /\ \E documentId \in Documents, storeOk \in BOOLEAN,
        config \in SearchConfigs :
       search' = SearchOutcome("hybridSearch", documentId, config,
                               hybridSearch_config(config),
                               hybridSearch(document_chunks, documentId, config), storeOk)
  /\ UNCHANGED <<storeVars, callVars, memVars, lastDelete, ingVars, turns>>

Ret_searchDocumentChunks ==
  /\ search = NoSearch
  /\ \E documentId \in Documents, storeOk \in BOOLEAN,
        config \in SearchConfigs :
       search' = SearchOutcome("searchDocumentChunks", documentId, config,
                               WithDefaults(config),
                               searchDocumentChunks(document_chunks, documentId, config),
                               storeOk)
  /\ UNCHANGED <<storeVars, callVars, memVars, lastDelete, ingVars, turns>>

Ret_semanticSearch ==
  /\ search = NoSearch
  /\ \E storeOk \in BOOLEAN, config \in SearchConfigs :
       search' = SearchOutcome("semanticSearch", Undefined, config, WithDefaults(config),
                               semanticSearch(document_chunks, config), storeOk)
  /\ UNCHANGED <<storeVars, callVars, memVars, lastDelete, ingVars, turns>>

(* POST /api/search with a valid query: a document search when documentId   *)
(* is supplied, a search over all documents otherwise.                      *)
SearchRoute_POST ==
  /\ search = NoSearch
  /\ \E documentId \in Documents \cup {Undefined}, storeOk \in BOOLEAN,
        body \in PartialConfigs({0, 3, 20, 25}, {0 - 10, 0, 50, 100, 150}) :
       LET config == SearchRouteConfig(body)
       IN search' = SearchOutcome("route", documentId, body, config,
                       IF Truthy(documentId)
                       THEN searchDocumentChunks(document_chunks, documentId, config)
                       ELSE semanticSearch(document_chunks, config),
                       storeOk)
  /\ UNCHANGED <<storeVars, callVars, memVars, lastDelete, ingVars, turns>>

RetNext ==
  \/ Ret_hybridSearch
  \/ Ret_searchDocumentChunks
  \/ Ret_semanticSearch
  \/ SearchRoute_POST

RetrievalSpec == RetInit /\ [][RetNext]_vars

---------------------------------------------------------------------------
(* Ingestion: src/lib/pdf-processing.ts.  A text is a sequence of           *)
(* one-character strings; its length is the length of the sequence.         *)

(* .replace(/\r\n/g, "\n") *)
RECURSIVE ReplaceCRLF(_)
ReplaceCRLF(s) ==
  LET i == FindSeq(s, <<"\r", "\n">>)
  IN  IF i = 0 THEN s
      ELSE SubSeq(s, 1, i - 1) \o <<"\n">> \o ReplaceCRLF(Drop(i + 1, s))

(* .replace(/[ \t]+/g, " ") *)
RECURSIVE CollapseBlanks(_)
CollapseBlanks(s) ==
  LET i == Find(s, 1, {" ", "\t"})
  IN  IF i > Len(s) THEN s
      ELSE SubSeq(s, 1, i - 1) \o <<" ">>
             \o CollapseBlanks(Drop(FindNot(s, i, {" ", "\t"}) - 1, s))

(* .replace(/\n{3,}/g, "\n\n") *)
RECURSIVE CollapseNewlines(_)
CollapseNewlines(s) ==
  LET i == FindSeq(s, <<"\n", "\n", "\n">>)
  IN  IF i = 0 THEN s
      ELSE SubSeq(s, 1, i - 1) \o <<"\n", "\n">>
             \o CollapseNewlines(Drop(FindNot(s, i, {"\n"}) - 1, s))

(* .split("\n") *)
RECURSIVE SplitLines(_)
SplitLines(s) ==
  LET i == Find(s, 1, {"\n"})
  IN  IF i > Len(s) THEN <<s>>
      ELSE <<SubSeq(s, 1, i - 1)>> \o SplitLines(Drop(i, s))

(* cleanText; of the control characters it removes,                        *)
(* [\x00-\x08\x0B\x0C\x0E-\x1F\x7F], the alphabet used has \f.             *)
cleanText(text) ==
  LET replaced == SelectSeq(CollapseNewlines(CollapseBlanks(ReplaceCRLF(text))),
                            LAMBDA c : c # "\f")
      lines == SplitLines(replaced)
  IN  Trim(Join([i \in 1..Len(lines) |-> Trim(lines[i])], <<"\n">>))

(* .split(/\n\n+/) *)
RECURSIVE SplitParagraphs(_)
SplitParagraphs(s) ==
  LET i == FindSeq(s, <<"\n", "\n">>)
  IN  IF i = 0 THEN <<s>>
      ELSE <<SubSeq(s, 1, i - 1)>>
             \o SplitParagraphs(Drop(FindNot(s, i, {"\n"}) - 1, s))

(* .match(/[^.!?]+[.!?]+/g): each match is a longest run of characters      *)
(* other than . ! ? followed by a longest run of . ! ?                      *)
RECURSIVE MatchSentences(_, _)
MatchSentences(s, i) ==
  LET a == FindNot(s, i, Terminators)
      b == Find(s, a, Terminators)
      c == FindNot(s, b, Terminators)
  IN  IF a > Len(s) \/ b > Len(s) THEN << >>
      ELSE <<SubSeq(s, a, c - 1)>> \o MatchSentences(s, c)

(* s split at its maximal runs of characters of seps, as .split(/\s+/)      *)
(* does for whitespace                                                      *)
RECURSIVE SplitRuns(_, _)
SplitRuns(s, seps) ==
  LET i == Find(s, 1, seps)
  IN  IF i > Len(s) THEN <<s>>
      ELSE <<SubSeq(s, 1, i - 1)>> \o SplitRuns(Drop(FindNot(s, i, seps) - 1, s), seps)


(* The loop over the sentences of an over-long paragraph. *)
RECURSIVE SentenceLoop(_, _, _)
SentenceLoop(st, sentences, chunkSize) ==
  LET sentence == Head(sentences)
      next ==
        IF Len(st.currentChunk) + 1 + Len(sentence) > chunkSize
        THEN [chunks |-> IF st.currentChunk # EmptyString
                         THEN Append(st.chunks, Trim(st.currentChunk)) ELSE st.chunks,
              currentChunk |-> sentence]
        ELSE [chunks |-> st.chunks,
              currentChunk |-> st.currentChunk
                         \o (IF st.currentChunk # EmptyString THEN <<" ">> ELSE << >>)
                         \o sentence]
  IN  IF sentences = << >> THEN st
      ELSE SentenceLoop(next, Tail(sentences), chunkSize)

(* The loop over the paragraphs.  overlapWords is Math.ceil(chunkOverlap /  *)
(* 5); words.slice(-overlapWords) is the whole array when overlapWords is 0 *)
(* (slice(-0) is slice(0)) or exceeds its length.                           *)
RECURSIVE ParagraphLoop(_, _, _)
ParagraphLoop(st, paragraphs, config) ==
  LET trimmedParagraph == Trim(Head(paragraphs))
      matches == MatchSentences(trimmedParagraph, 1)
      sentences == IF matches = << >> THEN <<trimmedParagraph>> ELSE matches
      words == SplitRuns(st.currentChunk, Whitespace)
      overlapWords == (config.chunkOverlap + WordLengthEstimate - 1) \div WordLengthEstimate
      overlap == Join(IF overlapWords = 0 \/ overlapWords >= Len(words) THEN words
                      ELSE SubSeq(words, Len(words) - overlapWords + 1, Len(words)),
                      <<" ">>)
      next ==
        IF trimmedParagraph = EmptyString THEN st
        ELSE IF Len(st.currentChunk) + 2 + Len(trimmedParagraph) > config.chunkSize
        THEN IF st.currentChunk # EmptyString
             THEN [chunks |-> Append(st.chunks, Trim(st.currentChunk)),
                   currentChunk |-> overlap \o <<"\n", "\n">> \o trimmedParagraph]
             ELSE SentenceLoop(st, sentences, config.chunkSize)
        ELSE [chunks |-> st.chunks,
              currentChunk |-> st.currentChunk
                    \o (IF st.currentChunk # EmptyString THEN <<"\n", "\n">> ELSE << >>)
                    \o trimmedParagraph]
  IN  IF paragraphs = << >> THEN st
      ELSE ParagraphLoop(next, Tail(paragraphs), config)

(* The array chunks of splitIntoChunks when its loop and the last push are  *)
(* done, before the length filter of the return statement.                  *)
splitIntoChunks_chunks(text, config) ==
  LET st == ParagraphLoop([chunks |-> << >>, currentChunk |-> EmptyString],
                          SplitParagraphs(cleanText(text)), config)
  IN  IF Trim(st.currentChunk) # EmptyString
      THEN Append(st.chunks, Trim(st.currentChunk)) ELSE st.chunks

(* Variant of splitIntoChunks that returns the chunks without the length    *)
(* filter.                                                                  *)
splitIntoChunks_unfiltered(text, config) ==
  splitIntoChunks_chunks(text, config)

splitIntoChunks(text, config) ==
  SelectSeq(splitIntoChunks_chunks(text, config), LAMBDA chunk : Len(chunk) >= MinChunkLength)

(* Variant of processDocument that numbers the chunks before the short ones *)
(* are filtered out.                                                        *)
processDocument_indexBeforeFilter(fullText, config, parseOk) ==
  IF ~parseOk
  THEN [success |-> FALSE, chunks |-> << >>, totalChunks |-> 0, error |-> "parse"]
  ELSE IF Trim(fullText) = EmptyString
  THEN [success |-> FALSE, chunks |-> << >>, totalChunks |-> 0, error |-> "no_text"]
  ELSE LET all == splitIntoChunks_chunks(fullText, config)
           numbered == [i \in 1..Len(all) |-> [content |-> all[i], chunkIndex |-> i - 1]]
           kept == SelectSeq(numbered, LAMBDA c : Len(c.content) >= MinChunkLength)
       IN  [success |-> TRUE, chunks |-> kept, totalChunks |-> Len(kept), error |-> "none"]

(* processDocument on the text the PDF parser extracted; a parser error is  *)
(* caught and reported.  A processed chunk is modelled by its content and   *)
(* its chunkIndex.                                                          *)
processDocument(fullText, config, parseOk) ==
  IF ~parseOk
  THEN [success |-> FALSE, chunks |-> << >>, totalChunks |-> 0, error |-> "parse"]
  ELSE IF Trim(fullText) = EmptyString
  THEN [success |-> FALSE, chunks |-> << >>, totalChunks |-> 0, error |-> "no_text"]
  ELSE LET textChunks == splitIntoChunks(fullText, config)
           processedChunks == [i \in 1..Len(textChunks) |->
                                 [content |-> textChunks[i], chunkIndex |-> i - 1]]
       IN  [success |-> TRUE, chunks |-> processedChunks,
            totalChunks |-> Len(processedChunks), error |-> "none"]

(* Input texts *)

Rep(n, s) == [i \in 1..(n * Len(s)) |-> s[((i - 1) % Len(s)) + 1]]

(* text repeated until it is longer than size *)
RECURSIVE RepeatUntilLonger(_, _, _)
RepeatUntilLonger(unit, acc, size) ==
  IF Len(acc) > size THEN acc ELSE RepeatUntilLonger(unit, acc \o unit, size)

ScenarioText == RepeatUntilLonger(<<"A", ".", " ", "B", ".", " ", "C", ".">>, << >>, ScenarioConfig.chunkSize)

ParagraphPool ==
  { Rep(4, <<"a">>) \o <<" ">> \o Rep(4, <<"b">>) \o <<".">>,
    Rep(10, <<"c">>) \o <<" ">> \o Rep(10, <<"d">>) \o <<" ">> \o Rep(10, <<"e">>) \o <<" ">>
      \o Rep(10, <<"f">>) \o <<" ">> \o Rep(10, <<"g">>) \o <<".">>,
    Rep(4, <<"h">>) \o <<" ">> \o Rep(4, <<"i">>) \o <<".", " ">> \o Rep(4, <<"j">>) \o <<" ">> \o Rep(4, <<"k">>)
      \o <<"!", " ">> \o Rep(4, <<"l">>) \o <<" ">> \o Rep(4, <<"m">>),
    Rep(3, Rep(10, <<"n">>)) \o <<"?", " ">> \o Rep(3, Rep(10, <<"o">>)) \o <<".", " ">>
      \o Rep(4, <<"p">>) \o <<" ">> \o Rep(4, <<"q">>),
    <<" ", "\t">> \o Rep(4, <<"r">>) \o <<"\t", " ">> \o Rep(4, <<"s">>) \o <<"\f", " ", "\r", "\n">>
      \o Rep(4, <<"t">>) \o <<" ">>,
    ScenarioText }

ChunkTexts ==
  { EmptyString, <<" ", "\n">> } \cup
  { Join(ps, <<"\n", "\n", "\n">>) : ps \in UNION { [1..n -> ParagraphPool] : n \in 1..MaxParagraphs } }

ChunkConfigs ==
  { ScenarioConfig,
    [chunkSize |-> 60, chunkOverlap |-> 10],
    MEDICAL_CHUNK_CONFIG }

ChunkInit ==
  /\ chat_sessions = {}
  /\ chat_messages = {}
  /\ now = 1
  /\ document_chunks = {}
  /\ CallInit
  /\ saved = << >>
  /\ lastRead = NoRead
  /\ lastDelete = NoDelete
  /\ search = NoSearch
  /\ chunking \in { [NoChunking EXCEPT !.text = t] : t \in ChunkTexts }
  /\ upload = NoUpload
  /\ medical_documents = {}
  /\ storage = {}
  /\ turns = << >>
  /\ client = NoClient

(* A caller of splitIntoChunks. *)
Chunk_splitIntoChunks ==
  /\ chunking.op = "none"
  /\ \E config \in ChunkConfigs :
       chunking' = [op |-> "splitIntoChunks", text |-> chunking.text, config |-> config,
                    before |-> splitIntoChunks_chunks(chunking.text, config),
                    chunks |-> splitIntoChunks(chunking.text, config),
                    result |-> NoChunking.result]
  /\ UNCHANGED <<storeVars, callVars, memVars, lastDelete, search, upload,
                 medical_documents, storage, turns>>

(* A caller of processDocument, such as the upload route. *)
Chunk_processDocument ==
  /\ chunking.op = "none"
  /\ \E config \in ChunkConfigs, parseOk \in BOOLEAN :
       chunking' = [op |-> "processDocument", text |-> chunking.text, config |-> config,
                    before |-> splitIntoChunks_chunks(chunking.text, config),
                    chunks |-> splitIntoChunks(chunking.text, config),
                    result |-> processDocument(chunking.text, config, parseOk)]
  /\ UNCHANGED <<storeVars, callVars, memVars, lastDelete, search, upload,
                 medical_documents, storage, turns>>

ChunkNext == Chunk_splitIntoChunks \/ Chunk_processDocument

ChunkSpec == ChunkInit /\ [][ChunkNext]_vars

---------------------------------------------------------------------------
(* The upload route: src/app/api/documents/upload/route.ts and its copy     *)
(* with file storage and authentication (src/unnamed/part_001).             *)

(* An embedding is modelled by the text it embeds and its length.  embed is *)
(* the vector the provider computes for a text with outputDimensionality    *)
(* EMBEDDING_DIMENSIONS.                                                    *)
Vector(text, length) == [of |-> text, length |-> length]
embed(text) == Vector(text, EMBEDDING_DIMENSIONS)
EmptyVector == Vector(EmptyString, 0)                 \* the array []
NoValues == [of |-> EmptyString, length |-> 0 - 1]    \* e.values is undefined

(* What the provider may answer to embedContent({ contents: texts }): the   *)
(* vectors of the texts in order, or fewer of them, or one of them with     *)
(* another length or without values, or no embeddings field, or an error.   *)
ProviderResponses(texts) ==
  LET full == [i \in 1..Len(texts) |-> embed(texts[i])]
      Without(s, j) == [i \in 1..(Len(s) - 1) |-> IF i < j THEN s[i] ELSE s[i + 1]]
  IN  { [error |-> TRUE, embeddings |-> << >>, defined |-> FALSE],
        [error |-> FALSE, embeddings |-> << >>, defined |-> FALSE],
        [error |-> FALSE, embeddings |-> full, defined |-> TRUE] }
      \cup { [error |-> FALSE, embeddings |-> Without(full, j), defined |-> TRUE] :
               j \in 1..Len(texts) }
      \cup { [error |-> FALSE, defined |-> TRUE,
              embeddings |-> [full EXCEPT ![j] = Vector(texts[j], OtherDimensions)]] :
               j \in 1..Len(texts) }
      \cup { [error |-> FALSE, defined |-> TRUE,
              embeddings |-> [full EXCEPT ![j] = NoValues]] : j \in 1..Len(texts) }

(* embedBatch: (response.embeddings ?? []).map(e => e.values ?? []) *)
embedBatch(texts, response) ==
  LET embeddings == IF response.defined THEN response.embeddings ELSE << >>
  IN  [i \in 1..Len(embeddings) |->
         [embedding |-> IF embeddings[i] = NoValues THEN EmptyVector ELSE embeddings[i]]]

(* Variant of processAndEmbedDocument that pairs each chunk with the        *)
(* embedding of the next position.                                          *)
processAndEmbedDocument_shifted(processingResult, response) ==
  LET texts == [i \in 1..Len(processingResult.chunks) |-> processingResult.chunks[i].content]
      batchResult == embedBatch(texts, response)
      n == Len(batchResult)
  IN  IF ~processingResult.success
      THEN [success |-> FALSE, chunks |-> << >>, error |-> processingResult.error]
      ELSE IF response.error
      THEN [success |-> FALSE, chunks |-> << >>, error |-> "embedding"]
      ELSE [success |-> TRUE, error |-> "none",
            chunks |-> [i \in 1..Len(processingResult.chunks) |->
               [content |-> processingResult.chunks[i].content,
                chunkIndex |-> processingResult.chunks[i].chunkIndex,
                embedding |-> IF n > 0 THEN batchResult[(i % n) + 1].embedding
                              ELSE EmptyVector]]]

(* processAndEmbedDocument, from the result of its call of processDocument  *)
(* on: chunk i takes batchResult.embeddings[i], or [] when the batch has no *)
(* such position; a provider error is caught.                               *)
processAndEmbedDocument(processingResult, response) ==
  LET texts == [i \in 1..Len(processingResult.chunks) |-> processingResult.chunks[i].content]
      batchResult == embedBatch(texts, response)
  IN  IF ~processingResult.success
      THEN [success |-> FALSE, chunks |-> << >>, error |-> processingResult.error]
      ELSE IF response.error
      THEN [success |-> FALSE, chunks |-> << >>, error |-> "embedding"]
      ELSE [success |-> TRUE, error |-> "none",
            chunks |-> [i \in 1..Len(processingResult.chunks) |->
               [content |-> processingResult.chunks[i].content,
                chunkIndex |-> processingResult.chunks[i].chunkIndex,
                embedding |-> IF i <= Len(batchResult) THEN batchResult[i].embedding
                              ELSE EmptyVector]]]

(* saveChunksWithEmbeddings: one INSERT of all the rows; it fails as a      *)
(* whole on a store error or when a row violates the column type: the       *)
(* column embedding VECTOR(768) accepts only vectors of that length.        *)
saveChunksWithEmbeddingsOk(chunks, storeOk) ==
  /\ storeOk
  /\ \A i \in 1..Len(chunks) : chunks[i].embedding.length = EMBEDDING_DIMENSIONS

saveChunksWithEmbeddings(table, documentId, chunks, storeOk) ==
  IF saveChunksWithEmbeddingsOk(chunks, storeOk)
  THEN table \cup { [id |-> <<documentId, chunks[i].chunkIndex>>,
                     document_id |-> documentId,
                     content |-> chunks[i].content,
                     embedding |-> chunks[i].embedding,
                     chunk_index |-> chunks[i].chunkIndex] : i \in 1..Len(chunks) }
  ELSE table

(* saveDocument: the inserted row. *)
saveDocument(id, filename, totalChunks, storagePath) ==
  [id |-> id, filename |-> filename,
   metadata |-> [totalChunks |-> totalChunks, storagePath |-> storagePath]]

NewDocument == "d3"

Sentence(c, words, length) ==
  Rep(words - 1, Rep(length, <<c>>) \o <<" ">>) \o Rep(length, <<c>>) \o <<".">>

(* Extracted texts: none, one too short for a chunk, one chunk, and three   *)
(* paragraphs that make two chunks under MEDICAL_CHUNK_CONFIG.              *)
UploadTexts ==
  { EmptyString,
    Rep(4, <<"a">>) \o <<".">>,
    Sentence("b", 6, 10),
    Join(<<Sentence("c", 5, 100), Sentence("d", 5, 100), Sentence("e", 5, 100)>>,
         <<"\n", "\n", "\n">>) }

UploadRespond(status) == [upload EXCEPT !.pc = "responded", !.status = status]

UploadInit ==
  /\ chat_sessions = {}
  /\ chat_messages = {}
  /\ now = 1
  /\ document_chunks = {}
  /\ CallInit
  /\ saved = << >>
  /\ lastRead = NoRead
  /\ AuxInit

(* POST with the multipart form: the file must be present, a PDF and at     *)
(* most 20MB.                                                               *)
Upload_POST ==
  /\ upload.pc = "idle"
  /\ \E route \in {"upload", "storage"}, fileOk \in BOOLEAN, text \in UploadTexts :
       upload' = IF fileOk
                 THEN [NoUpload EXCEPT !.route = route, !.text = text,
                                       !.pc = IF route = "storage" THEN "storage"
                                              ELSE "process"]
                 ELSE [NoUpload EXCEPT !.route = route, !.pc = "responded",
                                       !.status = 400]
  /\ UNCHANGED <<storeVars, callVars, memVars, lastDelete, search, chunking,
                 medical_documents, storage, turns>>

Upload_uploadFileToStorage ==
  /\ upload.pc = "storage"
  /\ \E storeOk \in BOOLEAN :
       IF storeOk
       THEN /\ storage' = storage \cup {"documents/1_f.pdf"}
            /\ upload' = [upload EXCEPT !.pc = "process", !.storagePath = "documents/1_f.pdf"]
       ELSE /\ upload' = UploadRespond(500)
            /\ UNCHANGED storage
  /\ UNCHANGED <<storeVars, callVars, memVars, lastDelete, search, chunking,
                 medical_documents, turns>>

Upload_processAndEmbedDocument ==
  /\ upload.pc = "process"
  /\ \E parseOk \in BOOLEAN :
       \E processingResult \in {processDocument(upload.text, MEDICAL_CHUNK_CONFIG, parseOk)} :
       \E response \in ProviderResponses([i \in 1..Len(processingResult.chunks) |->
                                            processingResult.chunks[i].content]) :
          LET result == processAndEmbedDocument(processingResult, response)
          IN  upload' = IF result.success
                        THEN [upload EXCEPT !.result = result, !.response = response,
                                !.pc = IF upload.route = "storage" THEN "auth"
                                       ELSE "save_document"]
                        ELSE [UploadRespond(422) EXCEPT !.result = result,
                                                        !.response = response]
  /\ UNCHANGED <<storeVars, callVars, memVars, lastDelete, search, chunking,
                 medical_documents, storage, turns>>

Upload_getUser ==
  /\ upload.pc = "auth"
  /\ \E authenticated \in BOOLEAN :
       upload' = IF authenticated THEN [upload EXCEPT !.pc = "save_document"]
                 ELSE UploadRespond(401)
  /\ UNCHANGED <<storeVars, callVars, memVars, lastDelete, search, chunking,
                 medical_documents, storage, turns>>

Upload_saveDocument ==
  /\ upload.pc = "save_document"
  /\ \E storeOk \in BOOLEAN :
       IF storeOk
       THEN /\ medical_documents' = medical_documents \cup
                 { saveDocument(NewDocument, "f.pdf",
                                Len(upload.result.chunks), upload.storagePath) }
            /\ upload' = [upload EXCEPT !.pc = "save_chunks", !.documentId = NewDocument]
       ELSE /\ upload' = UploadRespond(500)
            /\ UNCHANGED medical_documents
  /\ UNCHANGED <<storeVars, callVars, memVars, lastDelete, search, chunking, storage, turns>>

Upload_saveChunksWithEmbeddings ==
  /\ upload.pc = "save_chunks"
  /\ \E storeOk \in BOOLEAN :
       /\ document_chunks' = saveChunksWithEmbeddings(document_chunks, upload.documentId,
                                                      upload.result.chunks, storeOk)
       /\ upload' = IF saveChunksWithEmbeddingsOk(upload.result.chunks, storeOk)
                    THEN UploadRespond(200) ELSE UploadRespond(500)
  /\ UNCHANGED <<chat_sessions, chat_messages, now, callVars, memVars, lastDelete,
                 search, chunking, medical_documents, storage, turns>>

UploadNext ==
  \/ Upload_POST
  \/ Upload_uploadFileToStorage
  \/ Upload_processAndEmbedDocument
  \/ Upload_getUser
  \/ Upload_saveDocument
  \/ Upload_saveChunksWithEmbeddings

UploadSpec == UploadInit /\ [][UploadNext]_vars

---------------------------------------------------------------------------
(* The life of chat sessions: creation, message writes, title updates,      *)
(* deletion and reads, in any order, on two sessions                        *)



(* trigger_update_session: BEFORE UPDATE ON chat_sessions FOR EACH ROW,     *)
(* update_updated_at() sets NEW.updated_at = NOW().                         *)
trigger_update_session(row, clock) == [row EXCEPT !.updated_at = clock]

(* updateSessionTitle: UPDATE chat_sessions SET title WHERE id = sessionId. *)
updateSessionTitle(sessions, clock, sessionId, title, storeOk) ==
  IF storeOk
  THEN { IF s.id = sessionId
         THEN trigger_update_session([s EXCEPT !.title = title], clock)
         ELSE s : s \in sessions }
  ELSE sessions

(* The same delete on a schema whose chat_messages.session_id lacks         *)
(* ON DELETE CASCADE (and whose constraint is not enforced).                *)
deleteChatSession_noCascade(sessions, messages, sessionId, storeOk) ==
  IF storeOk
  THEN [ok |-> TRUE, sessions |-> { s \in sessions : s.id # sessionId },
        messages |-> messages]
  ELSE [ok |-> FALSE, sessions |-> sessions, messages |-> messages]

(* deleteChatSession: DELETE FROM chat_sessions WHERE id = sessionId, one   *)
(* statement; chat_messages.session_id REFERENCES chat_sessions(id) ON      *)
(* DELETE CASCADE removes the session's messages in the same statement.     *)
(* Deleting an absent id is no error.  Returns false iff the store reports  *)
(* an error, and then nothing was deleted.                                  *)
deleteChatSession(sessions, messages, sessionId, storeOk) ==
  IF storeOk
  THEN [ok |-> TRUE, sessions |-> { s \in sessions : s.id # sessionId },
        messages |-> { m \in messages : m.session_id # sessionId }]
  ELSE [ok |-> FALSE, sessions |-> sessions, messages |-> messages]

(* deleteDocument: DELETE FROM medical_documents WHERE id = documentId, one  *)
(* statement; document_chunks.document_id and chat_sessions.document_id     *)
(* REFERENCE medical_documents(id) ON DELETE CASCADE, and                   *)
(* chat_messages.session_id cascades from the sessions removed so.          *)
deleteDocument(documents, chunks, sessions, messages, documentId, storeOk) ==
  IF storeOk
  THEN LET kept == { s \in sessions : s.document_id # documentId }
       IN  [ok |-> TRUE,
            documents |-> { d \in documents : d.id # documentId },
            chunks |-> { c \in chunks : c.document_id # documentId },
            sessions |-> kept,
            messages |-> { m \in messages : \E s \in kept : s.id = m.session_id }]
  ELSE [ok |-> FALSE, documents |-> documents, chunks |-> chunks,
        sessions |-> sessions, messages |-> messages]

SesInit ==
  /\ chat_sessions = {createChatSession("d1", ExistingSession, 0)}
  /\ chat_messages = {}
  /\ now = 1
  /\ document_chunks = { [id |-> "c1", document_id |-> "d1", similarity |-> 90],
                         [id |-> "c4", document_id |-> "d2", similarity |-> 75] }
  /\ CallInit
  /\ saved = << >>
  /\ lastRead = NoRead
  /\ lastDelete = NoDelete
  /\ search = NoSearch
  /\ chunking = NoChunking
  /\ upload = NoUpload
  /\ medical_documents = { saveDocument("d1", "f.pdf", 1, "documents/1_f.pdf"),
                           saveDocument("d2", "g.pdf", 1, Undefined) }
  /\ storage = {"documents/1_f.pdf"}
  /\ turns = << >>
  /\ client = NoClient

SessionIds == { s.id : s \in chat_sessions }

(* A caller of createChatSession; ids are fresh (gen_random_uuid()), and    *)
(* chat_sessions.document_id REFERENCES medical_documents(id).              *)
Ses_createChatSession ==
  /\ now <= MaxSessionOps
  /\ NewSession \notin SessionIds \cup lastDelete.gone
  /\ \E documentId \in Documents, storeOk \in BOOLEAN :
       chat_sessions' = IF storeOk /\ \E d \in medical_documents : d.id = documentId
                        THEN chat_sessions \cup
                               {createChatSession(documentId, NewSession, now)}
                        ELSE chat_sessions
  /\ now' = now + 1
  /\ UNCHANGED <<chat_messages, document_chunks, callVars, memVars, auxVars>>

Ses_saveChatMessage ==
  /\ now <= MaxSessionOps
  /\ \E sessionId \in MemSessions, role \in Roles, storeOk \in BOOLEAN :
       chat_messages' = saveChatMessage(chat_messages, chat_sessions, now,
                                        sessionId, role, <<"x">>, storeOk)
  /\ now' = now + 1
  /\ UNCHANGED <<chat_sessions, document_chunks, callVars, memVars, auxVars>>

Ses_updateSessionTitle ==
  /\ now <= MaxSessionOps
  /\ \E sessionId \in MemSessions, title \in {"t1"}, storeOk \in BOOLEAN :
       chat_sessions' = updateSessionTitle(chat_sessions, now, sessionId, title, storeOk)
  /\ now' = now + 1
  /\ UNCHANGED <<chat_messages, document_chunks, callVars, memVars, auxVars>>

Ses_deleteChatSession ==
  /\ now <= MaxSessionOps
  /\ \E sessionId \in MemSessions, storeOk \in BOOLEAN :
       LET r == deleteChatSession(chat_sessions, chat_messages, sessionId, storeOk)
       IN /\ chat_sessions' = r.sessions
          /\ chat_messages' = r.messages
          /\ lastDelete' = [sessionId |-> sessionId, ok |-> r.ok,
                            gone |-> IF r.ok THEN lastDelete.gone \cup {sessionId}
                                             ELSE lastDelete.gone,
                            route |-> FALSE, at |-> now]
  /\ now' = now + 1
  /\ UNCHANGED <<document_chunks, callVars, memVars, search, ingVars, turns>>

(* DELETE /api/chat/history/[sessionId]: 401 without a user, 404 when       *)
(* getSessionById finds no row; then getDocumentById for the storage path,  *)
(* deleteChatSession (500 when it fails), deleteDocument of the session's   *)
(* document and deleteFileFromStorage, whose failures are only logged.      *)
SessionRoute_DELETE ==
  /\ now <= MaxSessionOps
  /\ \E sessionId \in MemSessions, authenticated \in BOOLEAN, readOk \in BOOLEAN,
        sessionOk \in BOOLEAN, documentOk \in BOOLEAN, fileOk \in BOOLEAN :
       IF ~authenticated \/ sessionId \notin SessionIds
       THEN /\ lastDelete' = [lastDelete EXCEPT !.sessionId = sessionId, !.ok = FALSE,
                                                !.route = TRUE, !.at = now]
            /\ UNCHANGED <<chat_sessions, chat_messages, document_chunks,
                           medical_documents, storage>>
       ELSE LET session == CHOOSE s \in chat_sessions : s.id = sessionId
                storagePaths == { d.metadata.storagePath : d \in
                                    { d \in medical_documents :
                                        readOk /\ d.id = session.document_id } }
                                  \ {Undefined}
                r == deleteChatSession(chat_sessions, chat_messages, sessionId, sessionOk)
                d == deleteDocument(medical_documents, document_chunks, r.sessions,
                                    r.messages, session.document_id, documentOk)
            IN  IF ~r.ok
                THEN /\ lastDelete' = [lastDelete EXCEPT !.sessionId = sessionId,
                                          !.ok = FALSE, !.route = TRUE, !.at = now]
                     /\ UNCHANGED <<chat_sessions, chat_messages, document_chunks,
                                    medical_documents, storage>>
                ELSE /\ chat_sessions' = d.sessions
                     /\ chat_messages' = d.messages
                     /\ document_chunks' = d.chunks
                     /\ medical_documents' = d.documents
                     /\ storage' = IF fileOk THEN storage \ storagePaths ELSE storage
                     /\ lastDelete' = [sessionId |-> sessionId, ok |-> TRUE,
                                       route |-> TRUE, at |-> now,
                                       gone |-> lastDelete.gone \cup
                                          (SessionIds \ { s.id : s \in d.sessions })]
  /\ now' = now + 1
  /\ UNCHANGED <<callVars, memVars, search, chunking, upload, turns>>

Ses_getChatHistory ==
  /\ \E sessionId \in MemSessions, storeOk \in BOOLEAN :
       lastRead' = [sessionId |-> sessionId, limit |-> DefaultLimit, ok |-> storeOk,
                    rows |-> getChatHistory(chat_messages, sessionId, DefaultLimit, storeOk),
                    savedThen |-> << >>]
  /\ UNCHANGED <<storeVars, callVars, saved, auxVars>>

SesNext ==
  \/ Ses_createChatSession
  \/ Ses_saveChatMessage
  \/ Ses_updateSessionTitle
  \/ Ses_deleteChatSession
  \/ SessionRoute_DELETE
  \/ Ses_getChatHistory

SessionSpec == SesInit /\ [][SesNext]_vars

---------------------------------------------------------------------------
(* Two processChatStream invocations on the same existing session, each an  *)
(* independent asynchronous task that is suspended at every awaited call:   *)
(* their steps interleave in any order; the store is all they share.        *)

ConInit ==
  /\ chat_sessions = {createChatSession("d1", ExistingSession, 0)}
  /\ chat_messages = {}
  /\ now = 1
  /\ document_chunks = {}
  /\ CallInit
  /\ saved = << >>
  /\ lastRead = NoRead
  /\ lastDelete = NoDelete
  /\ search = NoSearch
  /\ chunking = NoChunking
  /\ upload = NoUpload
  /\ medical_documents = {}
  /\ storage = {}
  /\ client = NoClient
  /\ turns = [i \in 1..2 |-> [pc |-> "retrieve", message |-> <<"q", ToString(i)>>,
                               fullResponse |-> EmptyString, fragments |-> 0,
                               userRow |-> 0, asstRow |-> 0]]

(* Step 2 of invocation i: hybridSearch, which throws on error.  Step 1     *)
(* takes the supplied sessionId.                                            *)
Con_processChatStream_Retrieve(i) ==
  /\ turns[i].pc = "retrieve"
  /\ \E searchOk \in BOOLEAN :
       turns' = [turns EXCEPT ![i].pc = IF searchOk THEN "history" ELSE "failed"]
  /\ UNCHANGED <<storeVars, callVars, memVars, lastDelete, search, ingVars>>

(* Step 3 of invocation i: getChatHistory. *)
Con_processChatStream_History(i) ==
  /\ turns[i].pc = "history"
  /\ turns' = [turns EXCEPT ![i].pc = "save_user"]
  /\ UNCHANGED <<storeVars, callVars, memVars, lastDelete, search, ingVars>>

(* Step 4 of invocation i: the user message; the result of saveChatMessage  *)
(* is not inspected.  userRow is the id the row has when it is inserted.    *)
Con_processChatStream_SaveUser(i) ==
  /\ turns[i].pc = "save_user"
  /\ \E storeOk \in BOOLEAN :
       chat_messages' = saveChatMessage(chat_messages, chat_sessions, now, ExistingSession,
                                        "user", turns[i].message, storeOk)
  /\ turns' = [turns EXCEPT ![i].pc = "streaming", ![i].userRow = now]
  /\ now' = now + 1
  /\ UNCHANGED <<chat_sessions, document_chunks, callVars, memVars, lastDelete, search,
                 ingVars>>

(* The generation stream of invocation i yields a fragment. *)
Con_processChatStream_Yield(i) ==
  /\ turns[i].pc = "streaming"
  /\ turns[i].fragments < MaxFragments
  /\ \E chunk \in Fragments :
       turns' = [turns EXCEPT ![i].fullResponse = @ \o chunk, ![i].fragments = @ + 1]
  /\ UNCHANGED <<storeVars, callVars, memVars, lastDelete, search, ingVars>>

(* The generation stream of invocation i throws. *)
Con_processChatStream_GenerationThrows(i) ==
  /\ turns[i].pc = "streaming"
  /\ turns' = [turns EXCEPT ![i].pc = "failed"]
  /\ UNCHANGED <<storeVars, callVars, memVars, lastDelete, search, ingVars>>

(* The stream of invocation i is exhausted: step 6 saves the full response. *)
Con_processChatStream_SaveAssistant(i) ==
  /\ turns[i].pc = "streaming"
  /\ \E storeOk \in BOOLEAN :
       chat_messages' = saveChatMessage(chat_messages, chat_sessions, now, ExistingSession,
                                        "assistant", turns[i].fullResponse, storeOk)
  /\ turns' = [turns EXCEPT ![i].pc = "done", ![i].asstRow = now]
  /\ now' = now + 1
  /\ UNCHANGED <<chat_sessions, document_chunks, callVars, memVars, lastDelete, search,
                 ingVars>>

ConNext ==
  \E i \in DOMAIN turns :
     \/ Con_processChatStream_Retrieve(i)
     \/ Con_processChatStream_History(i)
     \/ Con_processChatStream_SaveUser(i)
     \/ Con_processChatStream_Yield(i)
     \/ Con_processChatStream_GenerationThrows(i)
     \/ Con_processChatStream_SaveAssistant(i)

ConcurrentSpec == ConInit /\ [][ConNext]_vars

---------------------------------------------------------------------------
(* Properties                                                               *)

Happened(e) == \E i \in 1..Len(events) : events[i] = e
Before(a, b) == Index(events, a) > 0 /\ (Happened(b) => Index(events, a) < Index(events, b))
SessionFrames == { i \in 1..Len(enqueued) : enqueued[i].type = "session" }
TextFrames == { i \in 1..Len(enqueued) : enqueued[i].type = "text" }
UserMessageStored ==
  \E m \in TurnMessagesOf("user") :
     m.session_id = currentSessionId /\ m.content = req.message

(* C1: in both chat modes, once the generation capability has been invoked  *)
(* the user's message was already written: saveChatMessage("user") was      *)
(* called before the invocation and, unless the store refused the write,    *)
(* the store holds the message.                                             *)
C1_UserSavedBeforeGeneration ==
  Happened("generate") =>
     /\ Happened("save_user")
     /\ Index(events, "save_user") < Index(events, "generate")
     /\ (userSave = "ok" => UserMessageStored)

(* C2: in processChatStream, when generation fails after any number of      *)
(* fragments, the user message that was persisted is still in the store and *)
(* no assistant message, partial or full, was written for the turn.         *)
C2_FailedStreamKeepsUserOnly ==
  (req.stream /\ Happened("generation_failed")) =>
     /\ pc = "failed" /\ error = "generation"
     /\ (userSave = "ok" => UserMessageStored)
     /\ TurnMessagesOf("assistant") = {}
     /\ asstSave = "none"

C2_Witness ==
  /\ req.stream /\ Happened("generation_failed")
  /\ Len(emitted) >= 1
  /\ userSave = "ok" /\ UserMessageStored

(* C3: in both chat modes, a failed retrieval aborts the turn with an       *)
(* error: generation is never invoked and neither a user nor an assistant   *)
(* message is written.                                                      *)
C3_RetrievalFailureAborts ==
  Happened("retrieval_failed") =>
     /\ pc = "failed" /\ error = "retrieval"
     /\ controller \in {"errored", "json500"}
     /\ ~Happened("generate") /\ genArgs = NoGenArgs
     /\ TurnMessages = {}
     /\ userSave = "none" /\ asstSave = "none"

C3_Witness ==
  /\ Happened("retrieval_failed")
  /\ req.stream
  /\ req.sessionId = ExistingSession
  /\ Cardinality(chat_messages) >= 2

(* C4: when a chat turn completes, exactly one assistant message was        *)
(* written for it, after the last fragment, and its content is the in-order *)
(* concatenation of the fragments handed to the caller.                     *)
C4_OneAssistantMessageOnCompletion ==
  pc = "done" =>
     /\ Cardinality(TurnMessagesOf("assistant")) = 1
     /\ \A m \in TurnMessagesOf("assistant") :
          m.session_id = currentSessionId /\ m.content = Flatten(emitted)
     /\ Before("fragment", "save_assistant") \/ ~Happened("fragment")

(* C5: in processChatStream the session-created notification fires at most  *)
(* once, only when no sessionId was supplied, and before retrieval and      *)
(* before any fragment; with a supplied sessionId no session is created and *)
(* the notification never fires.                                            *)
C5_SessionCreatedNotification ==
  /\ Count(events, "session_created") <= 1
  /\ Happened("session_created") =>
       /\ ~Truthy(req.sessionId)
       /\ Before("create_session", "session_created")
       /\ Before("session_created", "retrieval")
       /\ Before("session_created", "retrieval_failed")
       /\ Before("session_created", "fragment")
  /\ (req.stream /\ Truthy(req.sessionId)) =>
       /\ ~Happened("session_created")
       /\ ~Happened("create_session")
       /\ chat_sessions = {createChatSession("d1", ExistingSession, 0)}

C5_Witness ==
  /\ Happened("session_created")
  /\ Happened("fragment")
  /\ pc = "done"

(* C6: in processChatStream, with the onSourcesRetrieved callback passed,   *)
(* the sources-retrieved notification fires exactly once per call that gets *)
(* past retrieval, after retrieval and before the generation capability is  *)
(* invoked (so before any fragment), and never when retrieval fails.        *)
C6_SourcesRetrievedNotification ==
  (req.stream /\ CallbacksGiven) =>
     /\ Count(events, "sources_retrieved") <= 1
     /\ Happened("retrieval") =>
          /\ Count(events, "sources_retrieved") = 1
          /\ Index(events, "retrieval") < Index(events, "sources_retrieved")
          /\ Before("sources_retrieved", "generate")
          /\ Before("sources_retrieved", "fragment")
     /\ ~Happened("retrieval") => ~Happened("sources_retrieved")

C6_Witness ==
  /\ req.stream /\ CallbacksGiven
  /\ Happened("sources_retrieved")
  /\ Happened("generate")
  /\ Happened("fragment")

(* C7: every streaming chat response carries exactly one session frame,     *)
(* placed before every generated-text frame, for a created session as for   *)
(* a supplied session id, whatever number of fragments is generated.        *)
C7_OneSessionFrameFirst ==
  req.stream =>
     /\ Cardinality(SessionFrames) <= 1
     /\ \A t \in TextFrames : \E f \in SessionFrames : f < t
     /\ controller = "closed" => Cardinality(SessionFrames) = 1

(* C8: the history handed to the generator is the most recent 10 messages   *)
(* of the session, in chronological order: of a session with more than 10   *)
(* messages the 10 newest and none of the older ones.                       *)
C8_HistoryIsMostRecentWindow ==
  (Happened("history") /\ histBase.ok) =>
     history = Last(HistoryWindow, histBase.rows)

C10_EmptyHistoryRendersMarker ==
  (Happened("generate") /\ histBase.ok /\ histBase.rows = << >>) =>
     /\ genArgs.chatHistory # EmptyString
     /\ genArgs.chatHistory = NoHistoryMarker


(* C11: deleting a session removes its messages with it.  No message ever   *)
(* refers to a session row that is gone; a session that deleteChatSession   *)
(* reported deleted holds no message and getChatHistory on it answers the   *)
(* empty list when the store answers; and messages never disappear while    *)
(* their session row stays.                                                 *)
C11_DeleteCascades ==
  /\ [](/\ \A m \in chat_messages : m.session_id \in SessionIds
        /\ \A sessionId \in lastDelete.gone :
              /\ sessionId \notin SessionIds
              /\ SessionRows(chat_messages, sessionId) = {}
              /\ getChatHistory(chat_messages, sessionId, DefaultLimit, TRUE) = << >>)
  /\ [][/\ \A m \in chat_messages :
            m \notin chat_messages' => m.session_id \notin { s.id : s \in chat_sessions' }
        /\ (lastRead' # lastRead /\ lastRead'.ok /\ lastRead'.sessionId \in lastDelete.gone)
             => lastRead'.rows = << >>]_vars
C11_Witness ==
  /\ lastDelete.ok
  /\ lastDelete.sessionId = ExistingSession
  /\ \E m \in chat_messages : m.session_id = NewSession
  /\ lastRead.ok /\ lastRead.sessionId = ExistingSession /\ lastRead.rows = << >>

(* C12: every successful saveChatMessage on a session strictly advances     *)
(* that session's updated_at.                                               *)
C12_SaveAdvancesUpdatedAt ==
  [][\A s \in chat_sessions :
       (\E m \in chat_messages' \ chat_messages : m.session_id = s.id)
         => \E t \in chat_sessions' : t.id = s.id /\ t.updated_at > s.updated_at]_vars


(* What the caller asked for: the supplied value, or the default when the   *)
(* field is omitted.                                                        *)
Requested(config, field, fallback) ==
  IF field \in DOMAIN config THEN config[field] ELSE fallback

(* C13: whatever the configuration (topK 0, threshold 0 and omitted fields  *)
(* included), hybridSearch returns at most the caller's topK results and    *)
(* none below the caller's threshold.                                       *)
C13_HybridSearchRespectsConfig ==
  (search.op = "hybridSearch" /\ search.ok) =>
     /\ Len(search.results) <= Requested(search.config, "topK", DefaultTopK)
     /\ \A i \in 1..Len(search.results) :
           search.results[i].similarity >=
             Requested(search.config, "threshold", DefaultThreshold)

(* C14: a search over one document returns the at most k most similar       *)
(* eligible chunks of that document in descending order, a chunk being      *)
(* eligible exactly when its similarity is at least the threshold.          *)
C14_DocumentSearchTopKEligible ==
  (search.op = "searchDocumentChunks" /\ search.ok) =>
     LET eligible == { c \in document_chunks :
                         /\ c.document_id = search.documentId
                         /\ c.similarity >= search.used.threshold }
         returned == { search.results[i] : i \in 1..Len(search.results) }
     IN /\ returned \subseteq eligible
        /\ Len(search.results) = Min(search.used.topK, Cardinality(eligible))
        /\ Cardinality(returned) = Len(search.results)
        /\ \A i, j \in 1..Len(search.results) :
              i < j => search.results[i].similarity >= search.results[j].similarity
        /\ \A c \in returned, o \in eligible \ returned : c.similarity >= o.similarity

(* C15: the search route uses the requested topK capped at 20 and the       *)
(* requested threshold clamped to [0, 1]; the defaults 5 and 0.7 apply only *)
(* when the field is omitted, so a supplied threshold of 0 is used as 0.    *)
C15_SearchRouteClamps ==
  search.op = "route" =>
     /\ search.used.topK =
          Min(Requested(search.config, "topK", SearchDefaultTopK), SearchMaxTopK)
     /\ search.used.threshold =
          Max(0, Min(Requested(search.config, "threshold", SearchDefaultThreshold),
                     SearchMaxThreshold))


(* The words of a text: its maximal runs of characters that are neither     *)
(* whitespace nor sentence terminators.                                     *)
WordsOf(text) ==
  LET runs == SplitRuns(text, Whitespace \cup Terminators)
  IN  { runs[i] : i \in 1..Len(runs) } \ {EmptyString}

(* C16: the chunks processDocument emits carry the indices 0..n-1 in order, *)
(* without gap or duplicate, also when chunks shorter than 50 characters    *)
(* were discarded by the splitter.                                          *)
C16_ChunkIndicesDense ==
  (chunking.op = "processDocument" /\ chunking.result.success) =>
     /\ \A i \in 1..Len(chunking.result.chunks) :
           chunking.result.chunks[i].chunkIndex = i - 1
     /\ { chunking.result.chunks[i].chunkIndex : i \in 1..Len(chunking.result.chunks) }
          = 0..(chunking.result.totalChunks - 1)
C16_Witness ==
  /\ chunking.op = "processDocument" /\ chunking.result.success
  /\ Len(chunking.result.chunks) >= 2
  /\ Len(chunking.before) > Len(chunking.chunks)
  /\ Len(chunking.before[1]) < MinChunkLength

(* C17: splitIntoChunks loses no text before its length filter: every word  *)
(* of the normalized input is a word of some chunk built by the loop,       *)
(* the unterminated tail of an over-long paragraph included.                *)
C17_NoTextLost ==
  chunking.op = "splitIntoChunks" =>
     WordsOf(cleanText(chunking.text))
       \subseteq UNION { WordsOf(chunking.before[i]) : i \in 1..Len(chunking.before) }

(* C18: chunking "A. B. C." repeated until it is longer than chunkSize,     *)
(* with chunkSize 20 and overlap 5, yields at least two chunks in the       *)
(* output of the chunker.                                                   *)
C18_ScenarioYieldsTwoChunks ==
  (/\ chunking.op = "splitIntoChunks"
   /\ chunking.text = ScenarioText
   /\ chunking.config = ScenarioConfig)
     => Len(chunking.chunks) >= 2

(* C18 as it holds: the scenario yields at least two chunks before the      *)
(* length filter; each of them is shorter than 50 characters, so the        *)
(* filter discards them and the output of the chunker is empty.             *)
C18_ScenarioYieldsTwoChunksBeforeFilter ==
  (/\ chunking.op = "splitIntoChunks"
   /\ chunking.text = ScenarioText
   /\ chunking.config = ScenarioConfig)
     => /\ Len(chunking.before) >= 2
        /\ \A i \in 1..Len(chunking.before) : Len(chunking.before[i]) < MinChunkLength
        /\ chunking.chunks = << >>
C18_Witness ==
  /\ chunking.op = "splitIntoChunks"
  /\ chunking.text = ScenarioText
  /\ chunking.config = ScenarioConfig
  /\ Len(chunking.before) >= 2


C21_ConcurrentTurnsKeepOwnMessages ==
  \A i \in DOMAIN turns :
     turns[i].pc = "done" =>
        \E u, a \in SessionRows(chat_messages, ExistingSession) :
           /\ u.id = turns[i].userRow /\ u.role = "user"
           /\ u.content = turns[i].message
           /\ a.id = turns[i].asstRow /\ a.role = "assistant"
           /\ a.content = turns[i].fullResponse
           /\ u.created_at < a.created_at

(* C22: a store error aborts the chat turn.  When the write of the user     *)
(* message fails the invocation ends with an error, the generation is not   *)
(* invoked after it and no assistant message is written; when the write of  *)
(* the assistant message fails the invocation reports an error and does not *)
(* complete normally.                                                       *)
C22_StoreErrorAborts ==
  /\ userSave = "failed" =>
        /\ pc = "failed"
        /\ asstSave = "none" /\ TurnMessagesOf("assistant") = {}
        /\ (req.stream => ~Happened("generate"))
  /\ asstSave = "failed" =>
        /\ pc = "failed"
        /\ controller \notin {"closed", "json200"}

(* C23: the first pass of hybridSearch queries the store with a threshold   *)
(* strictly lower than the caller's effective threshold and with twice the  *)
(* caller's effective topK, an explicit threshold of the caller included.   *)
C23_FirstPassLowersThreshold ==
  search.op = "hybridSearch" =>
     /\ search.used.threshold < OrElse(search.config, "threshold", DefaultThreshold)
     /\ search.used.topK = 2 * OrElse(search.config, "topK", DefaultTopK)

(* C24: in splitIntoChunks every paragraph whose length alone exceeds       *)
(* chunkSize is split at sentence boundaries, whether or not the running    *)
(* buffer is empty when it is reached: no returned chunk contains a whole   *)
(* over-long paragraph that has internal sentence boundaries.               *)
C24_OverlongParagraphSplit ==
  chunking.op # "none" =>
     LET paragraphs == SplitParagraphs(cleanText(chunking.text))
     IN  \A i \in 1..Len(paragraphs) :
            ( /\ Len(Trim(paragraphs[i])) > chunking.config.chunkSize
              /\ Len(MatchSentences(Trim(paragraphs[i]), 1)) >= 2 )
            => \A j \in 1..Len(chunking.chunks) :
                  FindSeq(chunking.chunks[j], Trim(paragraphs[i])) = 0

(* C25: in a chat turn with a supplied sessionId of an existing session the *)
(* retrieval is restricted to the document the session is bound to,         *)
(* whatever documentId the request carries.                                 *)
C25_RetrievalBoundToSessionDocument ==
  (Truthy(req.sessionId) /\ Happened("retrieval")) =>
     \A s \in chat_sessions :
        s.id = req.sessionId =>
           \A i \in 1..Len(relevantChunks) : relevantChunks[i].document_id = s.document_id

(* C26: deleting a session through the DELETE session route removes only    *)
(* that session and its own messages; every other session and every        *)
(* message of every other session is still there after the call.            *)
C26_DeleteRouteKeepsOtherSessions ==
  [][(lastDelete' # lastDelete /\ lastDelete'.route) =>
        /\ \A s \in chat_sessions :
              s.id # lastDelete'.sessionId => s \in chat_sessions'
        /\ \A m \in chat_messages :
              m.session_id # lastDelete'.sessionId => m \in chat_messages']_vars

(* C27: in the client stream reader the assistant message content shown     *)
(* after the stream ended equals the concatenation of the generated text    *)
(* fragments and never contains the session frame, for the first message of *)
(* a chat and for later messages sent with an already known session id.    *)
C27_ClientShowsGeneratedTextOnly ==
  (req.stream /\ req.route = "message" /\ controller = "closed"
     /\ client.read = Len(enqueued))
  => client.accumulatedResponse = Flatten(emitted)

(* C28: document upload commits all or nothing: whenever the upload route   *)
(* answers with an error (extraction or embedding failure, unauthenticated  *)
(* user, failed document insert or failed chunk insert) the store holds no  *)
(* document row, no chunk and no storage file created by the request.       *)
C28_UploadAllOrNothing ==
  (upload.pc = "responded" /\ upload.status # 200) =>
     /\ medical_documents = {}
     /\ document_chunks = {}
     /\ storage = {}

(* C29: a chat turn started without a sessionId that fails at retrieval     *)
(* leaves the store as it was before the turn: no newly created session     *)
(* remains after the failure.                                               *)
C29_FailedRetrievalLeavesNoSession ==
  (pc = "failed" /\ error = "retrieval" /\ ~Truthy(req.sessionId)) =>
     /\ \A s \in chat_sessions : s.created_at < req.startedAt
     /\ TurnMessages = {}

(* C30: processDocument reports success only when it produced at least one  *)
(* chunk: whenever chunking yields zero chunks (empty text, or text whose   *)
(* every chunk is shorter than 50 characters) the result has success =      *)
(* false and an error.                                                      *)
C30_SuccessMeansChunks ==
  chunking.op = "processDocument" =>
     /\ chunking.result.success => chunking.result.totalChunks >= 1
     /\ Len(chunking.chunks) = 0 =>
           (~chunking.result.success /\ chunking.result.error # "none")

=============================================================================
